---- MODULE Spec2Model ----
(***************************************************************************)
(* The message relay service of Calc-XD (server/routes.ts): the in-memory  *)
(* conversation store, the bearer-token middleware and the request         *)
(* handlers.  Node runs every handler to completion on one thread, so each *)
(* request is one atomic action; concurrently arriving requests are the    *)
(* interleavings of these actions.                                         *)
(***************************************************************************)
EXTENDS Integers, Sequences, FiniteSets, TLC

VARIABLES
    messages,          \* let messages: StoredMessage[]
    messageIdCounter,  \* let messageIdCounter
    typingStatus,      \* const typingStatus: Record<string, {isTyping, timestamp}>
    readReceipts,      \* const readReceipts: Map<string, boolean>
    now,               \* the last value Date.now() returned
    req,               \* the request handled last
    resp,              \* the response sent to it
    createdIds,        \* history: every id generateMessageId ever returned, in order
    credited,          \* history: every id for which some /api/read ran updatedCount++
    typed,             \* history: what each role's last accepted /api/typing set, and when
    client,            \* the app on one device: its screens and what it awaits
    poller             \* per participant, a client polling with a cursor

store == <<messages, messageIdCounter, typingStatus, readReceipts>>
server == <<messages, messageIdCounter, typingStatus, readReceipts, now, req, resp,
            createdIds, credited, typed>>
clients == <<client, poller>>
vars == <<messages, messageIdCounter, typingStatus, readReceipts, now, req, resp,
          createdIds, credited, typed, client, poller>>

-----------------------------------------------------------------------------
(* Bounds of the model *)

MaxSends == 2        \* valid sends per run (caps messageIdCounter)
MaxSendsWide == 1    \* the same, in the specifications with wide inputs
MaxTime == 2         \* Date.now() ranges over 1..MaxTime
MaxIds == 2          \* longest messageIds array of a read receipt
MaxLate == 2      \* instants later than TYPING_TIMEOUT after the first
MaxPad == 1          \* most whitespace around the core of a text

(* Program constants *)

MAX_TEXT_LENGTH == 5000
TYPING_TIMEOUT == 3000
\* the delay of the timeout that handleInputChange sets
TYPING_STOP_DELAY == 2000
BEARER_LEN == 7

-----------------------------------------------------------------------------
(* Strings the code takes apart are sequences of characters. *)

BearerPrefix == <<"B", "e", "a", "r", "e", "r", " ">>
KeyA == <<"c","a","l","c","-","u","s","e","r","-","a","-","k","e","y","-","2","0","2","4">>
KeyB == <<"c","a","l","c","-","u","s","e","r","-","b","-","k","e","y","-","2","0","2","4">>
KeyWrong == <<"w","r","o","n","g">>
KeyConstructor == <<"c","o","n","s","t","r","u","c","t","o","r">>

Participants == {"A", "B"}

\* String.prototype.startsWith
StartsWith(s, p) == Len(s) >= Len(p) /\ SubSeq(s, 1, Len(p)) = p

\* String.prototype.slice(n)
Slice(s, n) == SubSeq(s, n + 1, Len(s))

\* API_KEYS is an object literal: a property read finds the two own entries
\* and, through the prototype chain, the members of Object.prototype (a
\* function, which is truthy).  "undefined" is a read that finds nothing.
ObjectPrototypeKeys == {KeyConstructor}
InheritedValue == "Object.prototype.constructor"

API_KEYS(apiKey) ==
    IF apiKey = KeyA THEN "A"
    ELSE IF apiKey = KeyB THEN "B"
    ELSE IF apiKey \in ObjectPrototypeKeys THEN InheritedValue
    ELSE "undefined"

\* a variant that returns the role it is given: the sender would be the
\* recipient of their own message
getPartnerRole_self(role) == role

getPartnerRole(role) == IF role = "A" THEN "B" ELSE "A"

\* A header is [present, value]; an absent header and the empty string are
\* both falsy.
NoHeader == [present |-> FALSE, value |-> <<>>]
Header(v) == [present |-> TRUE, value |-> v]

\* a variant that answers 403 and still calls next(), as a middleware missing
\* its `return` would
authMiddleware_fallsThrough(authHeader) ==
    IF ~authHeader.present \/ authHeader.value = <<>>
       \/ ~StartsWith(authHeader.value, BearerPrefix)
    THEN [status |-> 401, next |-> FALSE, userRole |-> "undefined"]
    ELSE LET userRole == API_KEYS(Slice(authHeader.value, BEARER_LEN))
         IN  IF userRole = "undefined"
             THEN [status |-> 403, next |-> TRUE, userRole |-> "undefined"]
             ELSE [status |-> 200, next |-> TRUE, userRole |-> userRole]

\* The outcome of the middleware: the status it answers with (200 when it
\* answers nothing), whether it called next(), and req.userRole.
authMiddleware(authHeader) ==
    IF ~authHeader.present \/ authHeader.value = <<>>
       \/ ~StartsWith(authHeader.value, BearerPrefix)
    THEN [status |-> 401, next |-> FALSE, userRole |-> "undefined"]
    ELSE LET userRole == API_KEYS(Slice(authHeader.value, BEARER_LEN))
         IN  IF userRole = "undefined"
             THEN [status |-> 403, next |-> FALSE, userRole |-> "undefined"]
             ELSE [status |-> 200, next |-> TRUE, userRole |-> userRole]

-----------------------------------------------------------------------------
(* A text is undefined, a non-string value, or a string: lead whitespace   *)
(* characters, a core of `core` characters that neither starts nor ends    *)
(* with whitespace, and trail whitespace characters.                       *)

Str(lead, core, trail) == [kind |-> "string", lead |-> lead, core |-> core, trail |-> trail]
TextUndefined == [kind |-> "undefined", lead |-> 0, core |-> 0, trail |-> 0]
TextNumber == [kind |-> "number", lead |-> 0, core |-> 0, trail |-> 0]

\* text.length
Length(text) == text.lead + text.core + text.trail

\* a variant that trims nothing
Trim_nothing(text) == text

\* text.trim(): a string without a core is whitespace all through
Trim(text) == Str(0, text.core, 0)

\* !text || typeof text !== "string" || text.trim().length === 0
TextMissing(text) ==
    \/ text.kind = "undefined"
    \/ (text.kind = "string" /\ Length(text) = 0)
    \/ text.kind # "string"
    \/ Length(Trim(text)) = 0

\* a variant with the limit one too high
TextTooLong_offByOne(text) == Length(text) > MAX_TEXT_LENGTH + 1

\* text.length > 5000
TextTooLong(text) == Length(text) > MAX_TEXT_LENGTH

\* localId || null
LocalIdOrNull(localId) == IF localId \in {"undefined", ""} THEN "null" ELSE localId

-----------------------------------------------------------------------------
(* The store's helpers *)

MsgId(t, n) == [t |-> t, n |-> n]
UnknownId == MsgId(0, 0)

\* a variant whose id is the time alone
generateMessageId_timeOnly(t, counter) == [id |-> MsgId(t, 0), counter |-> counter + 1]

\* `msg_${Date.now()}_${messageIdCounter++}`: the id, and the counter after it
generateMessageId(t, counter) == [id |-> MsgId(t, counter), counter |-> counter + 1]

\* a variant that takes a missing entry for a read one
ReceiptOf_missingIsRead(receipts, id) == id \notin DOMAIN receipts \/ receipts[id]

\* readReceipts.get(id) || false, and the truthiness of readReceipts.get(id)
ReceiptOf(receipts, id) == id \in DOMAIN receipts /\ receipts[id]

\* a variant that does not write the index
ReceiptSet_lost(receipts, id, v) == receipts

\* readReceipts.set(id, v)
ReceiptSet(receipts, id, v) ==
    [k \in DOMAIN receipts \cup {id} |-> IF k = id THEN v ELSE receipts[k]]

\* a variant that drops both flags when either is stale
cleanupTypingStatus_both(status, t) ==
    [role \in DOMAIN status |->
        IF \E r \in Participants :
              status[r].isTyping /\ t - status[r].timestamp > TYPING_TIMEOUT
        THEN [status[role] EXCEPT !.isTyping = FALSE]
        ELSE status[role]]

\* a variant that drops the flag already at an age of TYPING_TIMEOUT
cleanupTypingStatus_early(status, t) ==
    [role \in DOMAIN status |->
        IF role \in Participants /\ status[role].isTyping
           /\ t - status[role].timestamp >= TYPING_TIMEOUT
        THEN [status[role] EXCEPT !.isTyping = FALSE]
        ELSE status[role]]

\* the loop of cleanupTypingStatus over "A" and "B"
cleanupTypingStatus(status, t) ==
    [role \in DOMAIN status |->
        IF role \in Participants /\ status[role].isTyping
           /\ t - status[role].timestamp > TYPING_TIMEOUT
        THEN [status[role] EXCEPT !.isTyping = FALSE]
        ELSE status[role]]

\* the object the handlers map a stored message to
\* a variant that reports every message as unread, as it was when created
View_asCreated(msg, receipts) ==
    [id |-> msg.id, text |-> msg.text, sender |-> msg.sender,
     timestamp |-> msg.timestamp, read |-> FALSE]

View(msg, receipts) ==
    [id |-> msg.id, text |-> msg.text, sender |-> msg.sender,
     timestamp |-> msg.timestamp, read |-> ReceiptOf(receipts, msg.id)]

RECURSIVE MapView(_, _)
MapView(msgs, receipts) ==
    IF msgs = <<>> THEN <<>>
    ELSE <<View(Head(msgs), receipts)>> \o MapView(Tail(msgs), receipts)

\* Array.prototype.sort((a, b) => a.timestamp - b.timestamp), which is stable
RECURSIVE InsertByTimestamp(_, _)
InsertByTimestamp(x, sorted) ==
    IF sorted = <<>> THEN <<x>>
    ELSE IF x.timestamp - Head(sorted).timestamp < 0 THEN <<x>> \o sorted
    ELSE <<Head(sorted)>> \o InsertByTimestamp(x, Tail(sorted))

\* a variant that returns the two halves of a poll as they were concatenated
SortByTimestamp_asGiven(s) == s

RECURSIVE SortByTimestamp(_)
SortByTimestamp(s) ==
    IF s = <<>> THEN <<>>
    ELSE InsertByTimestamp(s[Len(s)], SortByTimestamp(SubSeq(s, 1, Len(s) - 1)))

\* messages.find((m) => m.id === msgId): its index, 0 when there is none
RECURSIVE FindFrom(_, _, _)
FindFrom(msgs, id, i) ==
    IF i > Len(msgs) THEN 0
    ELSE IF msgs[i].id = id THEN i
    ELSE FindFrom(msgs, id, i + 1)

Find(msgs, id) == FindFrom(msgs, id, 1)

-----------------------------------------------------------------------------
(* The app (client/App.tsx, client/screens/CalculatorScreen.tsx with the    *)
(* chat screen, client/lib): one device.  A string the code takes apart is  *)
(* a sequence of characters.  Every handler and every continuation after an *)
(* await runs to completion on the JavaScript thread, so each is one action. *)

\* getPairing() === null
NoPairing == [code |-> <<>>, role |-> "none"]
PairingData(code, role) == [code |-> code, role |-> role]

CodeA == <<"1", "2", "3", "4">>
CodeB == <<"5", "6", "7", "8">>

\* the pairings of PAIRING_URL
PairingList == <<PairingData(CodeA, "A"), PairingData(CodeB, "B")>>

\* what fetchPairingData resolves to: null, or the parsed response
NoPairingResponse == [ok |-> FALSE, pairings |-> <<>>]
PairingResponse == [ok |-> TRUE, pairings |-> PairingList]

\* a variant that takes the first pairing whatever the code
findPairingByCode_first(data, code) ==
    IF data.pairings = <<>> THEN NoPairing ELSE data.pairings[1]

\* data.pairings.find((p) => p.code === code) || null
findPairingByCode(data, code) ==
    IF \E i \in 1..Len(data.pairings) : data.pairings[i].code = code
    THEN data.pairings[CHOOSE i \in 1..Len(data.pairings) :
                          /\ data.pairings[i].code = code
                          /\ \A j \in 1..(i - 1) : data.pairings[j].code # code]
    ELSE NoPairing

Digits10 == <<"0", "1", "2", "3", "4", "5", "6", "7", "8", "9">>
IsDigit(c) == \E i \in 1..10 : Digits10[i] = c
DigitValue(c) == (CHOOSE i \in 1..10 : Digits10[i] = c) - 1
Operators == {"+", "-", "*", "/"}

\* display.replace(/[^0-9]/g, "")
potentialCode(display) == SelectSeq(display, IsDigit)

\* the value of an expression of decimal numbers joined by "+", read left to
\* right: sum is the total of the numbers before the last "+", cur the number
\* being read
RECURSIVE SumFrom(_, _, _, _)
SumFrom(expr, i, sum, cur) ==
    IF i > Len(expr) THEN sum + cur
    ELSE IF IsDigit(expr[i]) THEN SumFrom(expr, i + 1, sum, 10 * cur + DigitValue(expr[i]))
    ELSE SumFrom(expr, i + 1, sum + cur, 0)

\* calculateExpression: null for an expression that ends with an operator
calculateExpression(expr) ==
    IF expr # <<>> /\ expr[Len(expr)] \in Operators
    THEN [isNull |-> TRUE, value |-> 0]
    ELSE [isNull |-> FALSE, value |-> SumFrom(expr, 1, 0, 0)]

\* String(result) of a natural number
RECURSIVE String(_)
String(n) ==
    IF n < 10 THEN <<Digits10[n + 1]>>
    ELSE Append(String(n \div 10), Digits10[(n % 10) + 1])

Zero == <<"0">>

\* the input field is empty
NoInput == Str(0, 0, 0)

NoAttempt == [stage |-> "none", code |-> <<>>, display |-> <<>>, pairing |-> NoPairing]
NoTick == [stage |-> "none", role |-> "none", isScreenVisible |-> FALSE,
           orphan |-> FALSE, ids |-> <<>>, had |-> 0]
NoSend == [stage |-> "none", role |-> "none", text |-> NoInput, input |-> NoInput,
           orphan |-> FALSE, answer |-> "none"]

\* the state of a ChatScreen that has just mounted
ChatMounted(c) ==
    [c EXCEPT !.route = "Chat", !.messages = <<>>, !.inputText = NoInput,
              !.isTyping = FALSE, !.otherTyping = FALSE, !.pairing = NoPairing,
              !.loadPairing = TRUE, !.isScreenVisible = TRUE,
              !.pollInterval = FALSE, !.typingTimeout = FALSE,
              !.typingDue = 0, !.typingSince = 0]

\* a variant whose cleanup leaves the polling interval running
ChatUnmounted_keepsInterval(c) ==
    [c EXCEPT !.route = "Calculator", !.messages = <<>>, !.inputText = NoInput,
              !.isTyping = FALSE, !.otherTyping = FALSE, !.pairing = NoPairing,
              !.loadPairing = FALSE, !.isScreenVisible = FALSE,
              !.pollInterval = FALSE, !.typingTimeout = FALSE,
              !.typingDue = 0, !.typingSince = 0,
              !.poll = IF c.poll.stage = "none" THEN c.poll
                       ELSE [c.poll EXCEPT !.orphan = TRUE],
              !.send = IF c.send.stage = "none" THEN c.send
                       ELSE [c.send EXCEPT !.orphan = TRUE]]

\* the chat screen leaves the stack: its timers are cleared, its state is
\* gone, and what it still awaits goes on without a screen to update
ChatUnmounted(c) ==
    [c EXCEPT !.route = "Calculator", !.messages = <<>>, !.inputText = NoInput,
              !.isTyping = FALSE, !.otherTyping = FALSE, !.pairing = NoPairing,
              !.loadPairing = FALSE, !.isScreenVisible = FALSE,
              !.pollInterval = FALSE, !.typingTimeout = FALSE,
              !.pollTimers = IF c.pollInterval THEN @ - 1 ELSE @,
              !.typingDue = 0, !.typingSince = 0,
              !.poll = IF c.poll.stage = "none" THEN c.poll
                       ELSE [c.poll EXCEPT !.orphan = TRUE],
              !.send = IF c.send.stage = "none" THEN c.send
                       ELSE [c.send EXCEPT !.orphan = TRUE]]

\* navigation.navigate("Chat"), navigation.navigate("Calculator") and goBack()
NavigateChat(c) == IF c.route = "Chat" THEN c ELSE ChatMounted(c)
NavigateCalculator(c) == IF c.route = "Chat" THEN ChatUnmounted(c) ELSE c

\* the app as it starts, with what secure storage holds from earlier runs
AppLaunched(stored) ==
    [appState |-> "active",        \* App: appState.current
     route |-> "Calculator",       \* the route on top of the stack
     display |-> Zero,             \* CalculatorScreen: display
     pressed |-> Zero,             \* history: the display at the last "="
     storage |-> stored,           \* secure storage, PAIRING_KEY
     storedPairing |-> NoPairing,  \* CalculatorScreen: storedPairing
     loadStoredPairing |-> TRUE,   \* loadStoredPairing() awaits getPairing()
     unlock |-> NoAttempt,         \* a checkForUnlockCode that awaits
     messages |-> <<>>,            \* ChatScreen: messages
     inputText |-> NoInput,        \* ChatScreen: inputText
     isTyping |-> FALSE,           \* ChatScreen: isTyping
     otherTyping |-> FALSE,        \* ChatScreen: otherTyping
     pairing |-> NoPairing,        \* ChatScreen: pairing
     loadPairing |-> FALSE,        \* loadPairing() awaits getPairing()
     isScreenVisible |-> FALSE,    \* ChatScreen: isScreenVisible
     pollInterval |-> FALSE,       \* pollIntervalRef holds a running interval
     pollTimers |-> 0,             \* the intervals of startPolling that run
     typingTimeout |-> FALSE,      \* typingTimeoutRef holds a pending timeout
     typingDue |-> 0,              \* the instant that timeout is set for
     typingSince |-> 0,            \* history: the change that set isTyping
     poll |-> NoTick,              \* a poll() that awaits
     send |-> NoSend,              \* a handleSend that awaits sendMessage
     event |-> "launch",           \* history: the handler that ran last
     ok |-> TRUE,                  \* history: whether its call succeeded
     turn |-> 0]                   \* history: flips with every handler

\* a client of GET /api/poll that keeps a cursor: what it has received, and
\* the largest timestamp among it
NoneReceived == [p \in Participants |-> [cursor |-> 0, received |-> {}]]

-----------------------------------------------------------------------------
InitServer ==
    /\ messages = <<>>
    /\ messageIdCounter = 1
    /\ typingStatus = [role \in Participants |-> [isTyping |-> FALSE, timestamp |-> 0]]
    /\ readReceipts = <<>>
    /\ now = 1
    /\ req = [op |-> "none", header |-> NoHeader, arg |-> "none", localId |-> "none",
              turn |-> 0]
    /\ resp = [status |-> 0, body |-> "none"]
    /\ createdIds = <<>>
    /\ credited = <<>>
    /\ typed = [role \in Participants |-> [isTyping |-> FALSE, timestamp |-> 0]]

\* the server has started; the app starts on a device that never paired
Init ==
    /\ InitServer
    /\ client = AppLaunched(NoPairing)
    /\ poller = NoneReceived

\* the request being handled: its route, its authorization header, its body
\* or parameter, and a bit that alternates from one request to the next
Request(op, h, arg) ==
    [op |-> op, header |-> h, arg |-> arg, localId |-> "none", turn |-> 1 - req.turn]

ErrorBody == "error"

\* what the client receives: the middleware's answer when it sent one, the
\* handler's otherwise
Answer(auth, handlerResp) ==
    IF auth.status # 200 THEN [status |-> auth.status, body |-> ErrorBody]
    ELSE handlerResp

-----------------------------------------------------------------------------
(* A handler behind authMiddleware.  Rejected is what is left to do when   *)
(* the middleware did not call next(); BadRequest is a handler's early     *)
(* return with status 400.                                                 *)

Rejected(auth) ==
    /\ resp' = Answer(auth, [status |-> 0, body |-> "none"])
    /\ UNCHANGED <<store, now, createdIds, credited, typed>>

BadRequest(auth) ==
    /\ resp' = Answer(auth, [status |-> 400, body |-> ErrorBody])
    /\ UNCHANGED <<store, now, createdIds, credited, typed>>

-----------------------------------------------------------------------------
(* POST /api/send *)

\* the StoredMessage the handler builds; t1 and t2 are its two Date.now() reads
NewMessage(sender, text, localId, id, t2) ==
    [id |-> id,
     localId |-> LocalIdOrNull(localId),
     text |-> Trim(text),
     sender |-> sender,
     recipient |-> getPartnerRole(sender),
     timestamp |-> t2,
     delivered |-> FALSE,
     read |-> FALSE]

\* the body of the 201 response
Created(message) ==
    [id |-> message.id, localId |-> message.localId, text |-> message.text,
     sender |-> message.sender, timestamp |-> message.timestamp, read |-> message.read]

\* a variant that writes back over the last element, as two appends that both
\* read the array before either wrote it would
push_overLast(msgs, message) ==
    IF msgs = <<>> THEN <<message>> ELSE [msgs EXCEPT ![Len(msgs)] = message]

\* messages.push(message)
push(msgs, message) == Append(msgs, message)

Send(h, text, localId, T, cap) ==
    \E auth \in {authMiddleware(h)} :
        /\ req' = [Request("send", h, text) EXCEPT !.localId = localId]
        /\ IF ~auth.next THEN Rejected(auth)
           ELSE IF TextMissing(text) \/ TextTooLong(text) THEN BadRequest(auth)
           ELSE \E t1 \in T, t2 \in T :
                /\ now <= t1 /\ t1 <= t2
                /\ messageIdCounter <= cap
                /\ \E gen \in {generateMessageId(t1, messageIdCounter)} :
                   \E message \in {NewMessage(auth.userRole, text, localId, gen.id, t2)} :
                    /\ messages' = push(messages, message)
                    /\ messageIdCounter' = gen.counter
                    /\ readReceipts' = ReceiptSet(readReceipts, message.id, FALSE)
                    /\ now' = t2
                    /\ createdIds' = Append(createdIds, message.id)
                    /\ resp' = Answer(auth, [status |-> 201, body |-> Created(message)])
                    /\ UNCHANGED <<typingStatus, credited, typed>>

-----------------------------------------------------------------------------
(* GET /api/poll *)

\* parseInt(req.query.since) || 0: an absent or non-numeric parameter is NaN
ParseSince(q) == IF q.kind = "digits" THEN q.n ELSE 0

\* a variant whose poll returns to the recipient only what was not delivered yet
PollNew_undelivered(msg, userRole, since) ==
    msg.recipient = userRole /\ msg.timestamp > since /\ ~msg.delivered

PollNew(msg, userRole, since) == msg.recipient = userRole /\ msg.timestamp > since
\* a variant that returns the caller's own messages from the cursor on
PollSent_fromCursor(msg, userRole, since) == msg.sender = userRole /\ msg.timestamp >= since

PollSent(msg, userRole, since) == msg.sender = userRole /\ msg.timestamp > since

\* a variant whose poll marks what it returns to its recipient as read too
MarkDelivered_andRead(msgs, userRole, since) ==
    [i \in 1..Len(msgs) |->
        IF PollNew(msgs[i], userRole, since)
        THEN [msgs[i] EXCEPT !.delivered = TRUE, !.read = TRUE]
        ELSE msgs[i]]

\* a variant that writes delivered for every message: true on what the
\* filter kept, false on the rest
MarkDelivered_onlyReturned(msgs, userRole, since) ==
    [i \in 1..Len(msgs) |->
        [msgs[i] EXCEPT !.delivered = PollNew(msgs[i], userRole, since)]]

\* the first map of the handler sets delivered on what its filter kept
MarkDelivered(msgs, userRole, since) ==
    [i \in 1..Len(msgs) |->
        IF PollNew(msgs[i], userRole, since)
        THEN [msgs[i] EXCEPT !.delivered = TRUE]
        ELSE msgs[i]]

PollResult(msgs, receipts, userRole, since) ==
    LET userMessages ==
            MapView(SelectSeq(msgs, LAMBDA m : PollNew(m, userRole, since)), receipts)
        sentMessages ==
            MapView(SelectSeq(msgs, LAMBDA m : PollSent(m, userRole, since)), receipts)
    IN  SortByTimestamp(userMessages \o sentMessages)

Poll(h, q, T) ==
    \E auth \in {authMiddleware(h)} :
        /\ req' = Request("poll", h, q)
        /\ IF ~auth.next THEN Rejected(auth)
           ELSE \E t \in T, since \in {ParseSince(q)} :
                /\ now <= t
                /\ now' = t
                /\ typingStatus' = cleanupTypingStatus(typingStatus, t)
                /\ messages' = MarkDelivered(messages, auth.userRole, since)
                /\ resp' = Answer(auth,
                        [status |-> 200,
                         body |-> PollResult(messages, readReceipts, auth.userRole, since)])
                /\ UNCHANGED <<messageIdCounter, readReceipts, createdIds, credited, typed>>

-----------------------------------------------------------------------------
(* GET /api/messages *)

\* a variant that lists only what was addressed to the caller
ListResult_received(msgs, receipts, userRole) ==
    SortByTimestamp(
        MapView(SelectSeq(msgs, LAMBDA m : m.recipient = userRole), receipts))

ListResult(msgs, receipts, userRole) ==
    SortByTimestamp(
        MapView(SelectSeq(msgs, LAMBDA m : m.sender = userRole \/ m.recipient = userRole),
                receipts))

List(h) ==
    \E auth \in {authMiddleware(h)} :
        /\ req' = Request("list", h, "none")
        /\ IF ~auth.next THEN Rejected(auth)
           ELSE /\ resp' = Answer(auth,
                        [status |-> 200,
                         body |-> ListResult(messages, readReceipts, auth.userRole)])
                /\ UNCHANGED <<store, now, createdIds, credited, typed>>

-----------------------------------------------------------------------------
(* POST /api/typing, GET /api/typing *)

Bool(b) == [kind |-> "boolean", value |-> b]
NotBool == [kind |-> "string", value |-> FALSE]

\* a variant that stamps every entry, not the sender's alone
TypingSet_all(status, sender, isTyping, t) ==
    [role \in DOMAIN status \cup {sender} |-> [isTyping |-> isTyping, timestamp |-> t]]

\* typingStatus[sender] = { isTyping, timestamp: Date.now() }
TypingSet(status, sender, isTyping, t) ==
    [role \in DOMAIN status \cup {sender} |->
        IF role = sender THEN [isTyping |-> isTyping, timestamp |-> t]
        ELSE status[role]]

SetTyping(h, isTyping, T) ==
    \E auth \in {authMiddleware(h)} :
        /\ req' = Request("setTyping", h, isTyping)
        /\ IF ~auth.next THEN Rejected(auth)
           ELSE IF isTyping.kind # "boolean" THEN BadRequest(auth)
           ELSE \E t \in T :
                /\ now <= t
                /\ now' = t
                /\ typingStatus' = TypingSet(typingStatus, auth.userRole, isTyping.value, t)
                /\ typed' = TypingSet(typed, auth.userRole, isTyping.value, t)
                /\ resp' = Answer(auth, [status |-> 200, body |-> [success |-> TRUE]])
                /\ UNCHANGED <<messages, messageIdCounter, readReceipts,
                               createdIds, credited>>

GetTyping(h, T) ==
    \E auth \in {authMiddleware(h)} :
        /\ req' = Request("getTyping", h, "none")
        /\ IF ~auth.next THEN Rejected(auth)
           ELSE \E t \in T :
                /\ now <= t
                /\ now' = t
                /\ \E cleaned \in {cleanupTypingStatus(typingStatus, t)} :
                    /\ typingStatus' = cleaned
                    /\ resp' = Answer(auth,
                            [status |-> 200,
                             body |-> [isTyping |->
                                         cleaned[getPartnerRole(auth.userRole)].isTyping]])
                /\ UNCHANGED <<messages, messageIdCounter, readReceipts,
                               createdIds, credited, typed>>

-----------------------------------------------------------------------------
(* POST /api/read, GET /api/read/:messageId *)

IdArray(items) == [kind |-> "array", items |-> items]
NotArray == [kind |-> "undefined", items |-> <<>>]

\* what req records of a messageIds value: whether it is an array, and the
\* set of the ids it names
Named(messageIds) ==
    [kind |-> messageIds.kind,
     ids |-> {messageIds.items[i] : i \in 1..Len(messageIds.items)}]

\* a variant that writes the index and forgets message.read
MarkOne_indexOnly(st, msgId, reader) ==
    LET i == Find(st.messages, msgId)
    IN  IF i # 0 /\ st.messages[i].recipient = reader
           /\ ~ReceiptOf(st.receipts, msgId)
        THEN [st EXCEPT !.receipts = ReceiptSet(st.receipts, msgId, TRUE),
                        !.updatedCount = st.updatedCount + 1,
                        !.counted = Append(st.counted, msgId)]
        ELSE st

\* a variant that lets anyone mark a message, its sender included
MarkOne_anyReader(st, msgId, reader) ==
    LET i == Find(st.messages, msgId)
    IN  IF i # 0 /\ ~ReceiptOf(st.receipts, msgId)
        THEN [st EXCEPT !.messages[i].read = TRUE,
                        !.receipts = ReceiptSet(st.receipts, msgId, TRUE),
                        !.updatedCount = st.updatedCount + 1,
                        !.counted = Append(st.counted, msgId)]
        ELSE st

\* a variant that counts a message whether or not it was read before
MarkOne_recount(st, msgId, reader) ==
    LET i == Find(st.messages, msgId)
    IN  IF i # 0 /\ st.messages[i].recipient = reader
        THEN [st EXCEPT !.messages[i].read = TRUE,
                        !.receipts = ReceiptSet(st.receipts, msgId, TRUE),
                        !.updatedCount = st.updatedCount + 1,
                        !.counted = Append(st.counted, msgId)]
        ELSE st

\* a variant that enters every named id in the index, stored or not
MarkOne_anyId(st, msgId, reader) ==
    LET i == Find(st.messages, msgId)
    IN  IF i # 0 /\ st.messages[i].recipient = reader
           /\ ~ReceiptOf(st.receipts, msgId)
        THEN [st EXCEPT !.messages[i].read = TRUE,
                        !.receipts = ReceiptSet(st.receipts, msgId, TRUE),
                        !.updatedCount = st.updatedCount + 1,
                        !.counted = Append(st.counted, msgId)]
        ELSE IF i = 0
        THEN [st EXCEPT !.receipts = ReceiptSet(st.receipts, msgId, FALSE)]
        ELSE st

\* the body of the loop over messageIds; `counted` records the ids for which
\* updatedCount++ ran
MarkOne(st, msgId, reader) ==
    LET i == Find(st.messages, msgId)
    IN  IF i # 0 /\ st.messages[i].recipient = reader
           /\ ~ReceiptOf(st.receipts, msgId)
        THEN [st EXCEPT !.messages[i].read = TRUE,
                        !.receipts = ReceiptSet(st.receipts, msgId, TRUE),
                        !.updatedCount = st.updatedCount + 1,
                        !.counted = Append(st.counted, msgId)]
        ELSE st

RECURSIVE MarkAll(_, _, _)
MarkAll(st, ids, reader) ==
    IF ids = <<>> THEN st
    ELSE MarkAll(MarkOne(st, Head(ids), reader), Tail(ids), reader)

Read(h, messageIds) ==
    \E auth \in {authMiddleware(h)} :
        /\ req' = Request("read", h, Named(messageIds))
        /\ IF ~auth.next THEN Rejected(auth)
           ELSE IF messageIds.kind # "array" THEN BadRequest(auth)
           ELSE \E done \in {MarkAll([messages |-> messages, receipts |-> readReceipts,
                                      updatedCount |-> 0, counted |-> <<>>],
                                     messageIds.items, auth.userRole)} :
                /\ messages' = done.messages
                /\ readReceipts' = done.receipts
                /\ credited' = credited \o done.counted
                /\ resp' = Answer(auth,
                        [status |-> 200,
                         body |-> [success |-> TRUE, updated |-> done.updatedCount]])
                /\ UNCHANGED <<messageIdCounter, typingStatus, now, createdIds, typed>>

ReadStatus(h, messageId) ==
    \E auth \in {authMiddleware(h)} :
        /\ req' = Request("readStatus", h, messageId)
        /\ IF ~auth.next THEN Rejected(auth)
           ELSE /\ resp' = Answer(auth,
                        [status |-> 200,
                         body |-> [read |-> ReceiptOf(readReceipts, messageId)]])
                /\ UNCHANGED <<store, now, createdIds, credited, typed>>

-----------------------------------------------------------------------------
(* DELETE /api/messages, GET /api/health *)

PurgeKeeps(msg, userRole) == msg.sender # userRole /\ msg.recipient # userRole

\* a variant that leaves the index as it is
PruneReceipts_keepsAll(receipts, kept) == receipts

\* the read receipts left once those of deleted messages are removed
PruneReceipts(receipts, kept) ==
    [id \in DOMAIN receipts \cap {kept[i].id : i \in 1..Len(kept)} |-> receipts[id]]

Purge(h) ==
    \E auth \in {authMiddleware(h)} :
        /\ req' = Request("purge", h, "none")
        /\ IF ~auth.next THEN Rejected(auth)
           ELSE \E kept \in {SelectSeq(messages, LAMBDA m : PurgeKeeps(m, auth.userRole))} :
                /\ messages' = kept
                /\ readReceipts' = PruneReceipts(readReceipts, kept)
                /\ resp' = Answer(auth, [status |-> 200, body |-> [success |-> TRUE]])
                /\ UNCHANGED <<messageIdCounter, typingStatus, now, createdIds, credited, typed>>

Health(T) ==
    \E t \in T :
        /\ now <= t
        /\ now' = t
        /\ req' = Request("health", NoHeader, "none")
        /\ resp' = [status |-> 200, body |-> [status |-> "ok", timestamp |-> t]]
        /\ UNCHANGED <<store, createdIds, credited, typed>>

-----------------------------------------------------------------------------
(* The app's handlers.  A call to the server that the app awaits takes two  *)
(* steps: the handler up to its await, then the request as the server       *)
(* handles it together with the continuation after the await; or the fetch  *)
(* fails and the continuation runs alone.  A call nothing awaits            *)
(* (sendTypingEvent) is handled, or lost, within the step that makes it.    *)

\* the handler that ran: recorded in event, and turn flips
Ran(c, event) == [c EXCEPT !.event = event, !.turn = 1 - c.turn]

\* getAuthHeader(role): Bearer and API_KEYS[role] of the client
getAuthHeader(role) == Header(BearerPrefix \o (IF role = "A" THEN KeyA ELSE KeyB))

\* after handleEquals found nothing to unlock: setDisplay(String(result)) when
\* the expression has a result
Evaluated(c, expr) ==
    LET result == calculateExpression(expr)
    IN  IF result.isNull THEN c ELSE [c EXCEPT !.display = String(result.value)]

\* handleEquals with checkForUnlockCode up to its first await: the user has
\* typed display and presses "="
handleEquals(display) ==
    /\ client.appState = "active" /\ client.route = "Calculator"
    /\ client.unlock.stage = "none"
    /\ \E code \in {potentialCode(display)},
          c \in {[client EXCEPT !.display = display, !.pressed = display]} :
          client' =
            IF Len(code) = 4 /\ c.storedPairing # NoPairing
            THEN IF code = c.storedPairing.code
                 THEN Ran([NavigateChat(c) EXCEPT !.display = Zero], "unlocked")
                 ELSE Ran(Evaluated(c, display), "evaluated")
            ELSE IF Len(code) = 4
            THEN Ran([c EXCEPT !.unlock = [stage |-> "fetch", code |-> code,
                                           display |-> display, pairing |-> NoPairing]],
                     "fetchPairingData")
            ELSE Ran(Evaluated(c, display), "evaluated")
    /\ UNCHANGED <<server, poller>>

\* checkForUnlockCode after await fetchPairingData(), and the rest of
\* handleEquals when it answers false
PairingFetched(data) ==
    /\ client.unlock.stage = "fetch"
    /\ \E pairing \in {IF data.ok THEN findPairingByCode(data, client.unlock.code)
                       ELSE NoPairing} :
          client' =
            IF pairing # NoPairing
            THEN Ran([client EXCEPT !.unlock.stage = "save", !.unlock.pairing = pairing],
                     "savePairing")
            ELSE Ran(Evaluated([client EXCEPT !.unlock = NoAttempt], client.unlock.display),
                     "evaluated")
    /\ UNCHANGED <<server, poller>>

\* checkForUnlockCode after await savePairing(pairing), and handleEquals
\* after it answered true
PairingSaved ==
    /\ client.unlock.stage = "save"
    /\ client' = Ran([NavigateChat([client EXCEPT !.storage = client.unlock.pairing,
                                                  !.storedPairing = client.unlock.pairing,
                                                  !.unlock = NoAttempt])
                        EXCEPT !.display = Zero],
                     "unlocked")
    /\ UNCHANGED <<server, poller>>

\* setItem throws: savePairing rejects and handleEquals with it
PairingSaveFailed ==
    /\ client.unlock.stage = "save"
    /\ client' = Ran([client EXCEPT !.unlock = NoAttempt], "saveFailed")
    /\ UNCHANGED <<server, poller>>

\* loadStoredPairing after await getPairing()
loadStoredPairing ==
    /\ client.loadStoredPairing
    /\ client' = Ran([client EXCEPT !.storedPairing = client.storage,
                                    !.loadStoredPairing = FALSE],
                     "loadStoredPairing")
    /\ UNCHANGED <<server, poller>>

Hidden == {"background", "inactive"}
AppStates == {"active"} \cup Hidden

\* App.handleAppStateChange
AppHandleAppStateChange(c, nextAppState) ==
    [(IF c.appState = "active" /\ nextAppState \in Hidden /\ c.route = "Chat"
      THEN NavigateCalculator(c) ELSE c)
        EXCEPT !.appState = nextAppState]

\* ChatScreen.handleAppStateChange, mounted says whether the chat screen had
\* subscribed when the change was announced
ChatHandleAppStateChange(c, mounted, nextAppState) ==
    IF ~mounted THEN c
    ELSE IF nextAppState \in Hidden THEN NavigateCalculator(c)
    ELSE IF c.route = "Chat" THEN [c EXCEPT !.isScreenVisible = TRUE]
    ELSE c

\* the operating system announces a change of the app's state: the listeners
\* run in the order they subscribed
AppStateChange(nextAppState) ==
    /\ nextAppState # client.appState
    /\ client' = Ran(ChatHandleAppStateChange(
                        AppHandleAppStateChange(client, nextAppState),
                        client.route = "Chat", nextAppState),
                     "handleAppStateChange")
    /\ UNCHANGED <<server, poller>>

handleBackPress ==
    /\ client.appState = "active" /\ client.route = "Chat"
    /\ client' = Ran(NavigateCalculator(client), "handleBackPress")
    /\ UNCHANGED <<server, poller>>

\* poll() up to await fetchMessages(pairing.role); the closure keeps the
\* pairing and the isScreenVisible of the render that called startPolling
PollStarted(c) ==
    IF c.pairing = NoPairing \/ c.poll.stage # "none" THEN c
    ELSE [c EXCEPT !.poll = [stage |-> "fetch", role |-> c.pairing.role,
                             isScreenVisible |-> c.isScreenVisible,
                             orphan |-> FALSE, ids |-> <<>>, had |-> 0]]

\* startPolling: the interval pollIntervalRef holds is cleared, poll() is
\* called, and a new interval is set
startPolling(c) ==
    PollStarted([c EXCEPT !.pollTimers = (IF c.pollInterval THEN @ - 1 ELSE @) + 1,
                          !.pollInterval = TRUE])

\* loadPairing after await getPairing(), then the effect on [pairing,
\* isScreenVisible]
loadPairing ==
    /\ client.route = "Chat" /\ client.loadPairing
    /\ \E c \in {[client EXCEPT !.pairing = client.storage, !.loadPairing = FALSE]} :
          client' = Ran(IF c.pairing # NoPairing /\ c.isScreenVisible
                        THEN startPolling(c)
                        ELSE c,
                        "loadPairing")
    /\ UNCHANGED <<server, poller>>

\* an interval of startPolling fires
PollInterval ==
    /\ client.pollTimers > 0 /\ client.poll.stage = "none"
    /\ client' = Ran(PollStarted(client), "poll")
    /\ UNCHANGED <<server, poller>>

\* the unread messages of the partner among those fetched
Unread(newMessages, role) ==
    SelectSeq(newMessages, LAMBDA m : m.sender # role /\ ~m.read)

\* poll() after await fetchMessages: setMessages, and sendReadReceipt is
\* called when the closure's isScreenVisible holds and something is unread;
\* had keeps the number of messages shown before, as history
AfterFetch(c, newMessages) ==
    LET shown == [(IF c.poll.orphan THEN c ELSE [c EXCEPT !.messages = newMessages])
                    EXCEPT !.poll.had = Len(c.messages)]
        unreadMessages == Unread(newMessages, c.poll.role)
    IN  IF c.poll.isScreenVisible /\ unreadMessages # <<>>
        THEN [shown EXCEPT !.poll.stage = "receipt",
                           !.poll.ids = [i \in 1..Len(unreadMessages) |->
                                            unreadMessages[i].id]]
        ELSE [shown EXCEPT !.poll.stage = "typing"]

\* fetchMessages: GET /api/messages answers
MessagesFetched ==
    /\ client.poll.stage = "fetch"
    /\ List(getAuthHeader(client.poll.role))
    /\ client' = Ran(AfterFetch(client, IF resp'.status = 200 THEN resp'.body ELSE <<>>),
                     "fetchMessages")
    /\ UNCHANGED poller

\* fetchMessages: the fetch throws, and [] is returned
MessagesFetchFailed ==
    /\ client.poll.stage = "fetch"
    /\ client' = Ran(AfterFetch(client, <<>>), "fetchMessagesFailed")
    /\ UNCHANGED <<server, poller>>

\* poll() after await sendReadReceipt: getTypingStatus is called
ReceiptSent ==
    /\ client.poll.stage = "receipt"
    /\ Read(getAuthHeader(client.poll.role), IdArray(client.poll.ids))
    /\ client' = Ran([client EXCEPT !.poll.stage = "typing"], "sendReadReceipt")
    /\ UNCHANGED poller

ReceiptFailed ==
    /\ client.poll.stage = "receipt"
    /\ client' = Ran([client EXCEPT !.poll.stage = "typing"], "sendReadReceiptFailed")
    /\ UNCHANGED <<server, poller>>

\* poll() after await getTypingStatus: setOtherTyping
AfterTyping(c, typing) ==
    [(IF c.poll.orphan THEN c ELSE [c EXCEPT !.otherTyping = typing])
        EXCEPT !.poll = NoTick]

TypingFetched ==
    /\ client.poll.stage = "typing"
    /\ GetTyping(getAuthHeader(client.poll.role), {now})
    /\ client' = Ran(AfterTyping(client, resp'.status = 200 /\ resp'.body.isTyping),
                     "getTypingStatus")
    /\ UNCHANGED poller

\* getTypingStatus: the fetch throws, and false is returned
TypingFetchFailed ==
    /\ client.poll.stage = "typing"
    /\ client' = Ran(AfterTyping(client, FALSE), "getTypingStatusFailed")
    /\ UNCHANGED <<server, poller>>

\* sendTypingEvent, which nothing awaits: the server handles it, or the fetch
\* throws
sendTypingEvent(role, isTyping) ==
    \/ SetTyping(getAuthHeader(role), Bool(isTyping), {now})
    \/ UNCHANGED server

handleInputChange(text) ==
    /\ client.appState = "active" /\ client.route = "Chat"
    /\ \E paired \in {client.pairing # NoPairing} :
       \E starts \in {paired /\ Length(text) > 0 /\ ~client.isTyping} :
          /\ client' = Ran([client EXCEPT !.inputText = text,
                                          !.isTyping = (@ \/ starts),
                                          !.typingSince = IF starts THEN now ELSE @,
                                          !.typingTimeout = (@ \/ paired),
                                          !.typingDue = IF paired THEN now + TYPING_STOP_DELAY
                                                        ELSE @],
                           "handleInputChange")
          /\ IF starts THEN sendTypingEvent(client.pairing.role, TRUE)
             ELSE UNCHANGED server
    /\ UNCHANGED poller

\* the timeout of handleInputChange fires, 2000 ms after the last change
TypingTimeout ==
    /\ client.typingTimeout
    /\ client' = Ran([client EXCEPT !.isTyping = FALSE, !.typingSince = 0,
                                    !.typingTimeout = FALSE, !.typingDue = 0],
                     "typingTimeout")
    /\ sendTypingEvent(client.pairing.role, FALSE)
    /\ UNCHANGED poller

\* handleSend up to await sendMessage(pairing.role, text)
handleSend ==
    /\ client.appState = "active" /\ client.route = "Chat"
    /\ Length(Trim(client.inputText)) > 0 /\ client.pairing # NoPairing
    /\ client.send.stage = "none"
    /\ client' = Ran([client EXCEPT !.inputText = NoInput, !.isTyping = FALSE,
                                    !.typingSince = 0,
                                    !.send = [stage |-> "sending",
                                              role |-> client.pairing.role,
                                              text |-> Trim(client.inputText),
                                              input |-> client.inputText,
                                              orphan |-> FALSE,
                                              answer |-> "none"]],
                     "handleSend")
    /\ sendTypingEvent(client.pairing.role, FALSE)
    /\ UNCHANGED poller

\* handleSend after await sendMessage: a message that came back is appended;
\* what was sent stays on record as history
AfterSend(c, ok, newMessage) ==
    [(IF ok /\ ~c.send.orphan THEN [c EXCEPT !.messages = Append(@, newMessage)] ELSE c)
        EXCEPT !.send.stage = "none"]

\* sendMessage: POST /api/send answers, 201 or not
MessageSent(cap) ==
    /\ client.send.stage = "sending"
    /\ Send(getAuthHeader(client.send.role), client.send.text, "local-1", {now}, cap)
    /\ client' = IF resp'.status = 201
                 THEN Ran(AfterSend(client, TRUE, resp'.body), "sendMessage")
                 ELSE Ran(AfterSend(client, FALSE, resp'.body), "sendMessageFailed")
    /\ UNCHANGED poller

\* sendMessage: the server handles POST /api/send, and its answer is on the
\* way to the app
MessageHandled(cap) ==
    /\ client.send.stage = "sending"
    /\ Send(getAuthHeader(client.send.role), client.send.text, "local-1", {now}, cap)
    /\ client' = [client EXCEPT !.send.stage = "answered", !.send.answer = resp']
    /\ UNCHANGED poller

\* sendMessage: the answer arrives, and handleSend goes on after its await
MessageAnswered ==
    /\ client.send.stage = "answered"
    /\ \E c \in {[client EXCEPT !.send.answer = "none"]} :
          client' = IF client.send.answer.status = 201
                    THEN Ran(AfterSend(c, TRUE, client.send.answer.body), "sendMessage")
                    ELSE Ran(AfterSend(c, FALSE, client.send.answer.body),
                             "sendMessageFailed")
    /\ UNCHANGED <<server, poller>>

\* sendMessage: the fetch throws before the request has reached the server
MessageSendFailed ==
    /\ client.send.stage = "sending"
    /\ client' = Ran(AfterSend(client, FALSE, "none"), "sendMessageFailed")
    /\ UNCHANGED <<server, poller>>

\* sendMessage: the fetch throws after the server has handled the request
MessageAnswerLost(cap) ==
    /\ client.send.stage = "sending"
    /\ Send(getAuthHeader(client.send.role), client.send.text, "local-1", {now}, cap)
    /\ client' = Ran(AfterSend(client, FALSE, "none"), "sendMessageFailed")
    /\ UNCHANGED poller

-----------------------------------------------------------------------------
(* The requests the model sends *)

Times == 1..MaxTime

\* the instants of the typing specification: a first one, the one exactly
\* TYPING_TIMEOUT later, and up to MaxLate - 1 milliseconds after that
TypingTimes == {1} \cup {1 + TYPING_TIMEOUT + d : d \in 0..(MaxLate - 1)}

HeaderA == Header(BearerPrefix \o KeyA)
HeaderB == Header(BearerPrefix \o KeyB)
Headers ==
    {NoHeader,
     Header(<<"B","a","s","i","c"," ">> \o KeyA),
     HeaderA,
     HeaderB,
     Header(BearerPrefix \o KeyWrong),
     Header(BearerPrefix \o KeyConstructor)}

Pads == {lr \in (0..MaxPad) \X (0..MaxPad) : lr[1] + lr[2] <= MaxPad}
Cores == {0, 1, MAX_TEXT_LENGTH - 1, MAX_TEXT_LENGTH, MAX_TEXT_LENGTH + 1}
Texts ==
    {TextUndefined, TextNumber} \cup {Str(lr[1], c, lr[2]) : lr \in Pads, c \in Cores}

LocalIds == {"undefined", "", "local-1"}

Sinces == {[kind |-> "absent", n |-> 0], [kind |-> "garbage", n |-> 0]}
          \cup {[kind |-> "digits", n |-> t] : t \in 0..MaxTime}

TypingFlags == {Bool(TRUE), Bool(FALSE), NotBool}

KnownIds == {createdIds[i] : i \in 1..Len(createdIds)} \cup {UnknownId}

RECURSIVE SeqsUpTo(_, _)
SeqsUpTo(S, n) ==
    IF n = 0 THEN {<<>>}
    ELSE LET shorter == SeqsUpTo(S, n - 1)
         IN  shorter \cup {Append(s, x) : s \in shorter, x \in S}

\* what a client can send as messageIds: something that is no array, or an
\* array of at most n ids
IdArrays(n) == {NotArray} \cup {IdArray(s) : s \in SeqsUpTo(KnownIds, n)}

\* Each specification issues every request, with its inputs drawn from the
\* sets its properties need.
TheTwo == {HeaderA, HeaderB}
Hi == Str(0, 1, 0)
NoSince == [kind |-> "absent", n |-> 0]
\* the cursor of a client that has seen everything sent so far
SinceNow == [kind |-> "digits", n |-> now]

\* Read receipts and purges: the two participants, requests that all arrive
\* within one millisecond, polls by clients that are up to date, every
\* messageIds array of up to MaxIds ids.
Next ==
    \/ \E h \in TheTwo, text \in {Hi}, localId \in {"undefined"} :
          Send(h, text, localId, {now}, MaxSends) /\ UNCHANGED clients
    \/ \E h \in TheTwo, q \in {SinceNow} : Poll(h, q, {now}) /\ UNCHANGED clients
    \/ \E h \in TheTwo : List(h) /\ UNCHANGED clients
    \/ \E h \in TheTwo, f \in {NotBool} : SetTyping(h, f, {now}) /\ UNCHANGED clients
    \/ \E h \in TheTwo : GetTyping(h, {now}) /\ UNCHANGED clients
    \/ \E ids \in IdArrays(MaxIds), h \in TheTwo : Read(h, ids) /\ UNCHANGED clients
    \/ \E h \in TheTwo, id \in KnownIds : ReadStatus(h, id) /\ UNCHANGED clients
    \/ \E h \in TheTwo : Purge(h) /\ UNCHANGED clients
    \/ Health({now}) /\ UNCHANGED clients

Spec == Init /\ [][Next]_vars

\* Polling over time: the clock advances through Times and polls carry every
\* cursor; read receipts are the refused kind, so every message stays unread.
NextPoll ==
    \/ \E h \in TheTwo, text \in {Hi}, localId \in {"undefined"} :
          Send(h, text, localId, Times, MaxSends) /\ UNCHANGED clients
    \/ \E h \in TheTwo, q \in Sinces : Poll(h, q, Times) /\ UNCHANGED clients
    \/ \E h \in TheTwo : List(h) /\ UNCHANGED clients
    \/ \E h \in TheTwo, f \in {NotBool} : SetTyping(h, f, Times) /\ UNCHANGED clients
    \/ \E h \in TheTwo : GetTyping(h, Times) /\ UNCHANGED clients
    \/ \E ids \in {NotArray}, h \in TheTwo : Read(h, ids) /\ UNCHANGED clients
    \/ \E h \in TheTwo, id \in KnownIds : ReadStatus(h, id) /\ UNCHANGED clients
    \/ \E h \in TheTwo : Purge(h) /\ UNCHANGED clients
    \/ Health(Times) /\ UNCHANGED clients

SpecPoll == Init /\ [][NextPoll]_vars

\* Reading: requests that all arrive within one millisecond, polls without a
\* cursor and with the cursor of an up-to-date client, read receipts naming
\* at most one id.
NextRead ==
    \/ \E h \in TheTwo, text \in {Hi}, localId \in {"undefined"} :
          Send(h, text, localId, {now}, MaxSends) /\ UNCHANGED clients
    \/ \E h \in TheTwo, q \in {NoSince, SinceNow} : Poll(h, q, {now}) /\ UNCHANGED clients
    \/ \E h \in TheTwo : List(h) /\ UNCHANGED clients
    \/ \E h \in TheTwo, f \in {NotBool} : SetTyping(h, f, {now}) /\ UNCHANGED clients
    \/ \E h \in TheTwo : GetTyping(h, {now}) /\ UNCHANGED clients
    \/ \E ids \in IdArrays(1), h \in TheTwo : Read(h, ids) /\ UNCHANGED clients
    \/ \E h \in TheTwo, id \in KnownIds : ReadStatus(h, id) /\ UNCHANGED clients
    \/ \E h \in TheTwo : Purge(h) /\ UNCHANGED clients
    \/ Health({now}) /\ UNCHANGED clients

SpecRead == Init /\ [][NextRead]_vars

\* Authorization: every header, requests that all arrive within one
\* millisecond.
NextAuth ==
    \/ \E h \in Headers, text \in {Hi}, localId \in {"undefined"} :
          Send(h, text, localId, {now}, MaxSendsWide) /\ UNCHANGED clients
    \/ \E h \in Headers, q \in {SinceNow} : Poll(h, q, {now}) /\ UNCHANGED clients
    \/ \E h \in Headers : List(h) /\ UNCHANGED clients
    \/ \E h \in Headers, f \in {Bool(TRUE)} : SetTyping(h, f, {now}) /\ UNCHANGED clients
    \/ \E h \in Headers : GetTyping(h, {now}) /\ UNCHANGED clients
    \/ \E ids \in IdArrays(1), h \in Headers : Read(h, ids) /\ UNCHANGED clients
    \/ \E h \in Headers, id \in KnownIds : ReadStatus(h, id) /\ UNCHANGED clients
    \/ \E h \in Headers : Purge(h) /\ UNCHANGED clients
    \/ Health({now}) /\ UNCHANGED clients

SpecAuth == Init /\ [][NextAuth]_vars

\* Validation: every text, isTyping true or no boolean, and the messageIds value
\* that is refused; requests that all arrive within one millisecond.
NextInput ==
    \/ \E h \in TheTwo, text \in Texts, localId \in {"undefined"} :
          Send(h, text, localId, {now}, MaxSendsWide) /\ UNCHANGED clients
    \/ \E h \in TheTwo, q \in {NoSince} : Poll(h, q, {now}) /\ UNCHANGED clients
    \/ \E h \in TheTwo : List(h) /\ UNCHANGED clients
    \/ \E h \in TheTwo, f \in {Bool(TRUE), NotBool} : SetTyping(h, f, {now}) /\ UNCHANGED clients
    \/ \E h \in TheTwo : GetTyping(h, {now}) /\ UNCHANGED clients
    \/ \E ids \in {NotArray}, h \in TheTwo : Read(h, ids) /\ UNCHANGED clients
    \/ \E h \in TheTwo, id \in KnownIds : ReadStatus(h, id) /\ UNCHANGED clients
    \/ \E h \in TheTwo : Purge(h) /\ UNCHANGED clients
    \/ Health({now}) /\ UNCHANGED clients

SpecInput == Init /\ [][NextInput]_vars

\* Typing: every isTyping value, at instants up to TYPING_TIMEOUT and more
\* apart; one message, so that polls and lists have something to return.
NextTyping ==
    \/ \E h \in {HeaderA}, text \in {Hi}, localId \in {"undefined"} :
          Send(h, text, localId, {now}, MaxSendsWide) /\ UNCHANGED clients
    \/ \E h \in {HeaderB}, q \in {NoSince} : Poll(h, q, {now}) /\ UNCHANGED clients
    \/ \E h \in TheTwo : List(h) /\ UNCHANGED clients
    \/ \E h \in TheTwo, f \in TypingFlags : SetTyping(h, f, TypingTimes) /\ UNCHANGED clients
    \/ \E h \in TheTwo : GetTyping(h, TypingTimes) /\ UNCHANGED clients
    \/ \E ids \in {NotArray}, h \in {HeaderB} : Read(h, ids) /\ UNCHANGED clients
    \/ \E h \in {HeaderA}, id \in {UnknownId} : ReadStatus(h, id) /\ UNCHANGED clients
    \/ \E h \in {HeaderA} : Purge(h) /\ UNCHANGED clients
    \/ Health({now}) /\ UNCHANGED clients

SpecTyping == Init /\ [][NextTyping]_vars

-----------------------------------------------------------------------------
(* What the user and the world do to the app *)

\* what the display holds when "=" is pressed: the two codes of the pairing
\* list, a code of no pairing, two digits, four digits around an operator,
\* and four digits before one
Displays ==
    {CodeA, CodeB, <<"9", "9", "9", "9">>, <<"1", "2">>,
     <<"1", "2", "+", "3", "4">>, <<"1", "2", "3", "4", "+">>}

\* what secure storage holds when the app starts
Storages == {NoPairing, PairingData(CodeA, "A")}

InitLaunched ==
    /\ InitServer
    /\ client \in {AppLaunched(stored) : stored \in Storages}
    /\ poller = NoneReceived

\* Unlocking: every display at the equals key, every outcome of the pairing
\* fetch and of the save, the app moving between foreground and background.
NextUnlock ==
    \/ \E display \in Displays : handleEquals(display)
    \/ \E data \in {NoPairingResponse, PairingResponse} : PairingFetched(data)
    \/ PairingSaved
    \/ PairingSaveFailed
    \/ loadStoredPairing
    \/ \E nextAppState \in AppStates : AppStateChange(nextAppState)
    \/ handleBackPress

SpecUnlock == InitLaunched /\ [][NextUnlock]_vars

\* the app starts on the device of participant A, paired in an earlier run
InitPaired ==
    /\ InitServer
    /\ client = AppLaunched(PairingData(CodeA, "A"))
    /\ poller = NoneReceived

\* Chatting: the device of a paired participant unlocks with its code, polls,
\* types and sends, and goes to the background and back; the partner sends
\* and types.
NextChat ==
    \/ \E display \in {CodeA} : handleEquals(display)
    \/ loadStoredPairing
    \/ \E nextAppState \in {"active", "background"} : AppStateChange(nextAppState)
    \/ loadPairing
    \/ PollInterval
    \/ MessagesFetched
    \/ MessagesFetchFailed
    \/ ReceiptSent
    \/ ReceiptFailed
    \/ TypingFetched
    \/ TypingFetchFailed
    \/ \E text \in {Hi} : handleInputChange(text)
    \/ TypingTimeout
    \/ handleSend
    \/ MessageSent(MaxSendsWide)
    \/ MessageSendFailed
    \/ MessageAnswerLost(MaxSendsWide)
    \/ \E h \in {HeaderB}, text \in {Hi}, localId \in {"undefined"} :
          Send(h, text, localId, {now}, MaxSendsWide) /\ UNCHANGED clients
    \/ \E h \in {HeaderB}, f \in {Bool(TRUE)} : SetTyping(h, f, {now}) /\ UNCHANGED clients

SpecChat == InitPaired /\ [][NextChat]_vars

-----------------------------------------------------------------------------
(* Vocabulary of the properties.  HeaderFor is the credential each         *)
(* participant is given; a step handles a request when req.turn flips.     *)

HeaderFor(p) == IF p = "A" THEN HeaderA ELSE HeaderB
Other(p) == CHOOSE q \in Participants : q # p

Elems(seq) == {seq[i] : i \in 1..Len(seq)}
Occurrences(seq, x) == Cardinality({i \in 1..Len(seq) : seq[i] = x})
NoDuplicates(seq) == \A i, j \in 1..Len(seq) : seq[i] = seq[j] => i = j

Handled(op) == req'.turn # req.turn /\ req'.op = op
StoreUnchanged == UNCHANGED <<messages, messageIdCounter, typingStatus, readReceipts>>

\* the length of a text after trimming and before, and a text that is
\* missing or no string
TrimmedLength(text) == text.core
RawLength(text) == text.lead + text.core + text.trail
NoText(text) == text.kind # "string"

-----------------------------------------------------------------------------
\* C1: a Send by participant p that passes validation appends one message
\* with sender p, the other participant as recipient, delivered = FALSE and
\* read = FALSE, and answers 201 with that message: sender p, read FALSE.
C1_SendCreatesMessage ==
    [][\A p \in Participants :
        (Handled("send") /\ req'.header = HeaderFor(p) /\ resp'.status = 201) =>
            /\ Len(messages') = Len(messages) + 1
            /\ SubSeq(messages', 1, Len(messages)) = messages
            /\ LET m == messages'[Len(messages')]
               IN  /\ m.sender = p
                   /\ m.recipient = Other(p)
                   /\ m.sender # m.recipient
                   /\ m.delivered = FALSE
                   /\ m.read = FALSE
                   /\ resp'.body.id = m.id
                   /\ resp'.body.sender = p
                   /\ resp'.body.read = FALSE]_vars

C1_Witness ==
    /\ req.op = "send" /\ req.header = HeaderB /\ resp.status = 201
    /\ Len(messages) > 1
    /\ messages[Len(messages)].sender = "B"
    /\ messages[Len(messages)].recipient = "A"
    /\ resp.body.sender = "B"

\* C2: a request that fails validation (a Send whose text is missing, empty
\* after trimming or longer than 5000 characters; a Set Typing whose isTyping
\* is no boolean; a read receipt whose messageIds is no array) is answered
\* 400 and leaves messages, the id counter, the typing entries and the
\* read-receipt index as they were.
C2_InvalidRequestLeavesStore ==
    [][( /\ req'.turn # req.turn
         /\ req'.header \in {HeaderA, HeaderB}
         /\ \/ /\ req'.op = "send"
               /\ \/ NoText(req'.arg)
                  \/ TrimmedLength(req'.arg) = 0
                  \/ RawLength(req'.arg) > MAX_TEXT_LENGTH
            \/ req'.op = "setTyping" /\ req'.arg.kind # "boolean"
            \/ req'.op = "read" /\ req'.arg.kind # "array" )
        => (resp'.status = 400 /\ StoreUnchanged)]_vars

C2_Witness ==
    /\ req.op = "send" /\ req.header = HeaderA
    /\ req.arg = Str(0, MAX_TEXT_LENGTH + 1, 0)
    /\ resp.status = 400
    /\ Len(messages) > 0
    /\ typingStatus["B"].isTyping

\* C3 as claimed: a text is accepted exactly when its length after trimming
\* is in 1..5000.
C3_AcceptedIffTrimmedFits ==
    (req.op = "send" /\ req.arg.kind = "string") =>
        (resp.status = 201 <=> TrimmedLength(req.arg) \in 1..MAX_TEXT_LENGTH)

\* C3, amended: a text is accepted exactly when it is a string whose length
\* after trimming is at least 1 and whose length before trimming is at most
\* 5000; it is then stored and returned trimmed.  Every other text is refused
\* with 400.
C3_AcceptedIffRawFits ==
    [][Handled("send") =>
        /\ resp'.status = 201 <=>
              ( /\ ~NoText(req'.arg)
                /\ TrimmedLength(req'.arg) >= 1
                /\ RawLength(req'.arg) <= MAX_TEXT_LENGTH )
        /\ resp'.status # 201 => resp'.status = 400
        /\ resp'.status = 201 =>
              /\ Len(messages') = Len(messages) + 1
              /\ messages'[Len(messages')].text = Str(0, TrimmedLength(req'.arg), 0)
              /\ resp'.body.text = Str(0, TrimmedLength(req'.arg), 0)]_vars

\* a text of 5000 characters, one of them leading whitespace, is stored as
\* its 4999 other characters
C3_Witness ==
    /\ req.op = "send" /\ resp.status = 201
    /\ req.arg = Str(1, MAX_TEXT_LENGTH - 1, 0)
    /\ messages[Len(messages)].text = Str(0, MAX_TEXT_LENGTH - 1, 0)

-----------------------------------------------------------------------------
\* the token a request presents after "Bearer ", and whether it presents one
Presents(h) == h.present /\ StartsWith(h.value, BearerPrefix)
Token(h) == Slice(h.value, BEARER_LEN)
Guarded == {"send", "poll", "list", "setTyping", "getTyping", "read", "readStatus", "purge"}

\* C4 as claimed: on every route but the health check, a request without an
\* Authorization header starting with "Bearer " is answered 401, one whose
\* token is neither of the two configured tokens is answered 403, and only a
\* request presenting one of the two tokens gets past the middleware.
C4_OnlyTheTwoTokensPass ==
    req.op \in Guarded =>
        /\ ~Presents(req.header) => resp.status = 401
        /\ (Presents(req.header) /\ Token(req.header) \notin {KeyA, KeyB}) => resp.status = 403
        /\ resp.status \notin {401, 403} =>
              (Presents(req.header) /\ Token(req.header) \in {KeyA, KeyB})

\* the request `Authorization: Bearer constructor` is let through, and its
\* Send stores a message whose sender is no participant
C4_InheritedKeyAccepted ==
    /\ req.op = "send" /\ resp.status = 201
    /\ req.header = Header(BearerPrefix \o KeyConstructor)
    /\ messages[Len(messages)].sender \notin Participants
    /\ messages[Len(messages)].recipient = "A"

\* C5: a request refused by the authentication check (401 or 403) leaves
\* messages, the id counter, the typing entries and the read-receipt index as
\* they were.
C5_RefusedRequestLeavesStore ==
    [][(req'.turn # req.turn /\ resp'.status \in {401, 403}) =>
            (req'.op \in Guarded /\ StoreUnchanged)]_vars

C5_Witness ==
    /\ req.op = "purge" /\ resp.status = 403
    /\ req.header = Header(BearerPrefix \o KeyWrong)
    /\ Len(messages) > 0

\* C6: no two messages ever created carry the same id, a purge included:
\* the ids handed out are pairwise different, and the stored messages carry
\* pairwise different ids among those handed out.
C6_IdsNeverReused ==
    /\ NoDuplicates(createdIds)
    /\ \A i, j \in 1..Len(messages) : messages[i].id = messages[j].id => i = j
    /\ \A i \in 1..Len(messages) : messages[i].id \in Elems(createdIds)

\* a message created after a purge removed the earlier one
C6_Witness ==
    /\ Len(createdIds) = 2
    /\ Len(messages) = 1
    /\ messages[1].id = createdIds[2]
    /\ createdIds[1].t = createdIds[2].t

\* C7: once a read receipt or a purge has been handled, every stored message
\* has an entry in the read-receipt index and its read flag equals that entry.
C7_ReadFlagEqualsIndex ==
    (req.op \in {"read", "purge"} /\ resp.status = 200) =>
        \A i \in 1..Len(messages) :
            /\ messages[i].id \in DOMAIN readReceipts
            /\ messages[i].read = readReceipts[messages[i].id]

C7_Witness ==
    /\ req.op = "read" /\ resp.status = 200
    /\ \E i, j \in 1..Len(messages) :
          /\ messages[i].read /\ readReceipts[messages[i].id]
          /\ ~messages[j].read /\ ~readReceipts[messages[j].id]

\* C8: a read receipt from participant p marks as read exactly the stored
\* messages that are named in it, addressed to p and not yet read; every other
\* message, and every id naming none, is left alone; `updated` is the number
\* of messages newly marked, an id named several times counting once.
C8_MarksExactlyTheMatching ==
    [][\A p \in Participants :
        (Handled("read") /\ req'.header = HeaderFor(p) /\ req'.arg.kind = "array") =>
            LET hit == {i \in 1..Len(messages) :
                            /\ messages[i].id \in req'.arg.ids
                            /\ messages[i].recipient = p
                            /\ ~messages[i].read}
            IN  /\ resp'.status = 200
                /\ resp'.body.updated = Cardinality(hit)
                /\ messages' = [i \in 1..Len(messages) |->
                                   IF i \in hit THEN [messages[i] EXCEPT !.read = TRUE]
                                                ELSE messages[i]]
                /\ DOMAIN readReceipts' = DOMAIN readReceipts
                /\ \A id \in DOMAIN readReceipts :
                      readReceipts'[id] =
                          (readReceipts[id] \/ \E i \in hit : messages[i].id = id)
                /\ UNCHANGED <<messageIdCounter, typingStatus>>]_vars

\* one receipt naming a message of the caller's own and a message addressed
\* to the caller
C8_Witness ==
    /\ req.op = "read" /\ req.header = HeaderB /\ resp.status = 200
    /\ resp.body.updated = 1
    /\ \E i, j \in 1..Len(messages) :
          /\ messages[i].recipient = "B" /\ messages[i].read
          /\ messages[j].recipient = "A" /\ ~messages[j].read
          /\ {messages[i].id, messages[j].id} \subseteq req.arg.ids

\* C9: the read receipt that first names a message addressed to its caller
\* counts it once; a later receipt of the same caller for the same id counts
\* nothing for it, and a receipt naming only such ids answers updated = 0 and
\* leaves the store as the first one left it.
C9_SecondReceiptChangesNothing ==
    [][\A p \in Participants :
        (Handled("read") /\ req'.header = HeaderFor(p) /\ req'.arg.kind = "array") =>
            LET mine == {messages[i].id : i \in {j \in 1..Len(messages) :
                                                    /\ messages[j].recipient = p
                                                    /\ messages[j].id \in req'.arg.ids}}
                again == mine \cap Elems(credited)
            IN  /\ \A id \in mine \ again : Occurrences(credited', id) = 1
                /\ \A id \in again : Occurrences(credited', id) = Occurrences(credited, id)
                /\ mine \subseteq again => (resp'.body.updated = 0 /\ StoreUnchanged)]_vars

C9_Witness ==
    /\ req.op = "read" /\ req.header = HeaderA /\ resp.status = 200
    /\ resp.body.updated = 0
    /\ \E i \in 1..Len(messages) :
          /\ messages[i].recipient = "A"
          /\ messages[i].id \in req.arg.ids
          /\ messages[i].id \in Elems(credited)
          /\ messages[i].read

\* C10: in whatever order the read receipts of the two participants are
\* handled, and however their id sets overlap, the `updated` of each answer
\* is the number of messages it newly credited and no message is credited
\* more than once over all answers.
C10_NoReceiptCountedTwice ==
    [][(Handled("read") /\ resp'.status = 200) =>
            /\ resp'.body.updated = Len(credited') - Len(credited)
            /\ SubSeq(credited', 1, Len(credited)) = credited
            /\ NoDuplicates(credited')]_vars

\* both participants have sent receipts naming both messages; each message
\* was credited once
C10_Witness ==
    /\ req.op = "read" /\ resp.status = 200 /\ resp.body.updated = 0
    /\ Len(credited) = 2
    /\ Cardinality(req.arg.ids) = 2
    /\ req.arg.ids = Elems(credited)
    /\ \E i, j \in 1..Len(messages) :
          /\ messages[i].recipient = "A" /\ messages[i].read
          /\ messages[j].recipient = "B" /\ messages[j].read

-----------------------------------------------------------------------------
\* C11: a message is read, by its flag or by its index entry, only if it was
\* read before the step or the step is a read receipt of its recipient that
\* names its id; a message just created is unread.  So no Send, Poll, List,
\* typing request, read-status query or request of the sender sets it.
C11_ReadOnlyByRecipientReceipt ==
    [][\A i \in 1..Len(messages') :
        LET m == messages'[i]
            before == {j \in 1..Len(messages) : messages[j].id = m.id}
        IN  (m.read \/ ReceiptOf(readReceipts', m.id)) =>
              /\ before # {}
              /\ \/ \A j \in before : messages[j].read /\ ReceiptOf(readReceipts, m.id)
                 \/ /\ Handled("read")
                    /\ req'.header = HeaderFor(m.recipient)
                    /\ req'.arg.kind = "array"
                    /\ m.id \in req'.arg.ids]_vars

\* one message read after its recipient's receipt, another one polled by its
\* recipient and named in its sender's receipt, and still unread
C11_Witness ==
    /\ req.op = "read" /\ resp.status = 200 /\ resp.body.updated = 0
    /\ \E i, j \in 1..Len(messages) :
          /\ messages[i].read /\ messages[i].id \in Elems(credited)
          /\ messages[j].delivered /\ ~messages[j].read
          /\ req.header = HeaderFor(messages[j].sender)
          /\ messages[j].id \in req.arg.ids

-----------------------------------------------------------------------------
\* the cursor a poll asks for: an absent one stands for 0
CursorOf(q) == IF q.kind = "digits" THEN q.n ELSE 0
Ascending(body) == \A i, j \in 1..Len(body) : i < j => body[i].timestamp <= body[j].timestamp

\* C12: a Poll by p with cursor `since` (0 when absent) returns each stored
\* message with (sender = p or recipient = p) and timestamp > since once, and
\* nothing else, in ascending timestamp order; afterwards every such message
\* addressed to p is delivered, and no other message and no other field has
\* changed.
C12_PollReturnsTheNewer ==
    [][\A p \in Participants :
        (Handled("poll") /\ req'.header = HeaderFor(p)
            /\ req'.arg.kind \in {"absent", "digits"}) =>
            LET since == CursorOf(req'.arg)
                want == {i \in 1..Len(messages) :
                            /\ messages[i].sender = p \/ messages[i].recipient = p
                            /\ messages[i].timestamp > since}
                body == resp'.body
            IN  /\ resp'.status = 200
                /\ Len(body) = Cardinality(want)
                /\ \A i \in want : \E k \in 1..Len(body) :
                      body[k] = [id |-> messages[i].id, text |-> messages[i].text,
                                 sender |-> messages[i].sender,
                                 timestamp |-> messages[i].timestamp,
                                 read |-> messages[i].read]
                /\ Ascending(body)
                /\ messages' = [i \in 1..Len(messages) |->
                                   IF i \in want /\ messages[i].recipient = p
                                   THEN [messages[i] EXCEPT !.delivered = TRUE]
                                   ELSE messages[i]]
                /\ UNCHANGED <<messageIdCounter, readReceipts>>]_vars

\* a poll without cursor that returns the caller's own earlier message before
\* a later one addressed to the caller, and delivers only the latter
C12_Witness ==
    /\ req.op = "poll" /\ req.header = HeaderA /\ req.arg.kind = "absent"
    /\ Len(resp.body) = 2 /\ Len(messages) = 2
    /\ resp.body[1].sender = "A" /\ resp.body[2].sender = "B"
    /\ resp.body[1].timestamp < resp.body[2].timestamp
    /\ \E i, j \in 1..2 :
          /\ messages[i].id = resp.body[1].id /\ ~messages[i].delivered
          /\ messages[j].id = resp.body[2].id /\ messages[j].delivered

-----------------------------------------------------------------------------
Cursors == 0..MaxTime

\* C13 as claimed: whatever request other than a Send follows a Poll by p with
\* cursor t, the same Poll issued after it returns what the first returned.
C13_SamePollUnlessSend ==
    [][\A p \in Participants :
        (/\ req.op = "poll" /\ req.header = HeaderFor(p) /\ resp.status = 200
         /\ req'.turn # req.turn /\ req'.op # "send") =>
            PollResult(messages', readReceipts', p, CursorOf(req.arg)) = resp.body]_vars

\* C13, amended: a Poll by p with cursor t issued again at once returns the
\* same messages in the same order with the same read flags, and so does one
\* issued after any requests among which there is no Send, no read receipt and
\* no Purge: none of those requests changes what any Poll would return.
C13_SamePollUnlessStoreChanged ==
    [][/\ \A p \in Participants :
            (Handled("poll") /\ req'.header = HeaderFor(p) /\ resp'.status = 200) =>
                PollResult(messages', readReceipts', p, CursorOf(req'.arg)) = resp'.body
       /\ (req'.turn # req.turn /\ req'.op \notin {"send", "read", "purge"}
               /\ <<messages, readReceipts>>' # <<messages, readReceipts>>) =>
            \A p \in Participants, t \in Cursors :
                PollResult(messages', readReceipts', p, t)
                    = PollResult(messages, readReceipts, p, t)]_vars

\* a poll that returns a read message and an unread one, both delivered before
C13_Witness ==
    /\ req.op = "poll" /\ req.header = HeaderB /\ req.arg.kind = "absent"
    /\ Len(resp.body) = 2
    /\ resp.body[1].read /\ ~resp.body[2].read
    /\ resp.body = PollResult(messages, readReceipts, "B", 0)
    /\ \A i \in 1..Len(messages) : messages[i].recipient = "B" => messages[i].delivered

-----------------------------------------------------------------------------
RECURSIVE LatestTimestamp(_)
LatestTimestamp(body) ==
    IF body = <<>> THEN 0
    ELSE LET rest == LatestTimestamp(Tail(body))
         IN  IF Head(body).timestamp > rest THEN Head(body).timestamp ELSE rest

\* C14: once a Poll by p has returned a non-empty result whose largest
\* timestamp is t, a Poll by p with cursor t returns the empty list, and it
\* goes on doing so through every request that is no Send (a request that
\* leaves messages and index untouched changes no result).
C14_NothingNewUntilSend ==
    [][\A p \in Participants :
        /\ (Handled("poll") /\ req'.header = HeaderFor(p) /\ resp'.status = 200
                /\ resp'.body # <<>>) =>
              PollResult(messages', readReceipts', p, LatestTimestamp(resp'.body)) = <<>>
        /\ (req'.turn # req.turn /\ req'.op # "send"
                /\ <<messages, readReceipts>>' # <<messages, readReceipts>>) =>
              \A t \in Cursors :
                  PollResult(messages, readReceipts, p, t) = <<>>
                      => PollResult(messages', readReceipts', p, t) = <<>>]_vars

\* a poll with the cursor of the latest message, delivered by an earlier poll,
\* returns nothing
C14_Witness ==
    /\ req.op = "poll" /\ req.header = HeaderB /\ req.arg.kind = "digits"
    /\ resp.status = 200 /\ resp.body = <<>>
    /\ Len(messages) = 2
    /\ \E i \in 1..2 :
          /\ messages[i].recipient = "B" /\ messages[i].delivered
          /\ messages[i].timestamp = req.arg.n
    /\ \A i \in 1..2 : messages[i].timestamp <= req.arg.n
    /\ \E i \in 1..2 : messages[i].timestamp < req.arg.n

-----------------------------------------------------------------------------
Ids(body) == {body[i].id : i \in 1..Len(body)}

\* C15 as claimed, with `strict superset` read as `superset`: whatever request
\* follows a Poll by p with cursor 0, a List by p after it returns every
\* message the Poll returned, with the content the Poll returned.
C15_ListHoldsEarlierPoll ==
    [][\A p \in Participants :
        (/\ req.op = "poll" /\ req.header = HeaderFor(p) /\ resp.status = 200
         /\ CursorOf(req.arg) = 0
         /\ req'.turn # req.turn) =>
            Elems(resp.body) \subseteq Elems(ListResult(messages', readReceipts', p))]_vars

\* C15, amended: a List by p returns what it found in the store and changes
\* nothing; at every instant it holds exactly the messages of a Poll by p with
\* cursor 0, and every message of a Poll by p with any cursor, with the same
\* read value; and what a Poll by p with cursor 0 returned is still listed,
\* by id after any request that is no Purge, and by content after any request
\* that is neither a Purge nor a read receipt.  (The store starts empty, so
\* the steps that change messages or index are the ones to look at.)
C15_ListAgreesWithPoll ==
    [][\A p \in Participants :
        /\ (Handled("list") /\ req'.header = HeaderFor(p)) =>
              /\ resp'.status = 200
              /\ resp'.body = ListResult(messages', readReceipts', p)
              /\ StoreUnchanged
        /\ <<messages, readReceipts>>' # <<messages, readReceipts>> =>
              \E list \in {ListResult(messages', readReceipts', p)},
                 before \in {PollResult(messages, readReceipts, p, 0)} :
                  /\ Elems(PollResult(messages', readReceipts', p, 0)) = Elems(list)
                  /\ \A t \in Cursors :
                        Elems(PollResult(messages', readReceipts', p, t)) \subseteq Elems(list)
                  /\ \A i, j \in 1..Len(list) : list[i].id = list[j].id => i = j
                  /\ req'.op # "purge" => Ids(before) \subseteq Ids(list)
                  /\ req'.op \notin {"purge", "read"} => Elems(before) \subseteq Elems(list)]_vars

\* a List that returns a read message and an unread one, the same two a Poll
\* without cursor returns at that instant
C15_Witness ==
    /\ req.op = "list" /\ req.header = HeaderA /\ resp.status = 200
    /\ Len(resp.body) = 2
    /\ \E i, j \in 1..2 : resp.body[i].read /\ ~resp.body[j].read
    /\ Elems(resp.body) = Elems(PollResult(messages, readReceipts, "A", 0))

-----------------------------------------------------------------------------
\* C16 as claimed: after a List or a Poll by p, every stored message
\* addressed to p that the answer contains is delivered.
C16_ReturnedMeansDelivered ==
    \A p \in Participants :
        (req.op \in {"list", "poll"} /\ req.header = HeaderFor(p) /\ resp.status = 200) =>
            \A i \in 1..Len(messages) :
                (messages[i].recipient = p /\ messages[i].id \in Ids(resp.body))
                    => messages[i].delivered

\* a List has returned to B a message addressed to B, which is not delivered
C16_ListedUndelivered ==
    /\ req.op = "list" /\ req.header = HeaderB /\ resp.status = 200
    /\ \E i \in 1..Len(messages) :
          /\ messages[i].recipient = "B"
          /\ messages[i].id \in Ids(resp.body)
          /\ ~messages[i].delivered

\* C17 as claimed: in every List and every Poll result, of either participant,
\* a message appended before another one is listed before it.
C17_ReadBackInAppendOrder ==
    (req.op \in {"list", "poll"} /\ req.header \in {HeaderA, HeaderB} /\ resp.status = 200) =>
        \A k, l \in 1..Len(resp.body) :
            k < l => Find(messages, resp.body[k].id) < Find(messages, resp.body[l].id)

\* A sent a message, B sent one within the same millisecond, and a Poll
\* returns B's message to A before A's own
C17_PollPutsReceivedFirst ==
    /\ req.op = "poll" /\ req.header = HeaderA /\ resp.status = 200
    /\ Len(messages) = 2 /\ Len(resp.body) = 2
    /\ messages[1].sender = "A" /\ messages[2].sender = "B"
    /\ messages[1].timestamp = messages[2].timestamp
    /\ resp.body[1].id = messages[2].id
    /\ resp.body[2].id = messages[1].id

-----------------------------------------------------------------------------
Stored(id) == \E i \in 1..Len(messages) : messages[i].id = id
\* counted by a read receipt of its recipient, and not purged since
MarkedRead(id) == id \in Elems(credited) /\ Stored(id)

\* C18: a message that a read receipt of its recipient has counted is read,
\* by flag and by index entry, for as long as it is stored; every Get Read
\* Status for its id answers read = true, and every List and Poll answer, of
\* either participant, that holds the message shows it with read = true.
C18_ReadStaysRead ==
    /\ \A i \in 1..Len(messages) :
          MarkedRead(messages[i].id) =>
              (messages[i].read /\ ReceiptOf(readReceipts, messages[i].id))
    /\ (req.op = "readStatus" /\ resp.status = 200 /\ MarkedRead(req.arg)) => resp.body.read
    /\ (req.op \in {"list", "poll"} /\ resp.status = 200) =>
          \A k \in 1..Len(resp.body) : MarkedRead(resp.body[k].id) => resp.body[k].read

\* the List of the sender shows the message its recipient has read
C18_Witness ==
    /\ req.op = "list" /\ req.header = HeaderA /\ resp.status = 200
    /\ \E k \in 1..Len(resp.body) :
          /\ resp.body[k].sender = "A"
          /\ resp.body[k].read
          /\ MarkedRead(resp.body[k].id)

\* C19: a Purge by p leaves no message sent by or addressed to p, removes
\* from the index the entries of the removed messages and no other, so that
\* no removed id is read any more; from then on, until a Send, List(p) is
\* empty, and Get Read Status for an id that was read and is no longer stored
\* answers read = false.
C19_PurgeRemovesConversation ==
    [][\A p \in Participants :
        /\ (Handled("purge") /\ req'.header = HeaderFor(p)) =>
              /\ resp'.status = 200
              /\ \A i \in 1..Len(messages') :
                    messages'[i].sender # p /\ messages'[i].recipient # p
              /\ messages' = SelectSeq(messages,
                                 LAMBDA m : m.sender # p /\ m.recipient # p)
              /\ DOMAIN readReceipts' =
                    {id \in DOMAIN readReceipts :
                        \E i \in 1..Len(messages') : messages'[i].id = id}
              /\ \A id \in DOMAIN readReceipts' : readReceipts'[id] = readReceipts[id]
              /\ ListResult(messages', readReceipts', p) = <<>>
        /\ (req'.turn # req.turn /\ req'.op # "send"
                /\ ListResult(messages, readReceipts, p) = <<>>) =>
              ListResult(messages', readReceipts', p) = <<>>
        /\ \A id \in Elems(credited') :
              (\A i \in 1..Len(messages') : messages'[i].id # id) =>
                  /\ ~ReceiptOf(readReceipts', id)
                  /\ (Handled("readStatus") /\ req'.arg = id /\ resp'.status = 200)
                        => ~resp'.body.read]_vars

\* after a purge, Get Read Status for an id that was read answers false
C19_Witness ==
    /\ req.op = "readStatus" /\ resp.status = 200
    /\ req.arg \in Elems(credited)
    /\ ~Stored(req.arg)
    /\ ~resp.body.read
    /\ messages = <<>> /\ DOMAIN readReceipts = {}

\* C20: Get Read Status answers 200 and changes nothing in the store; for an
\* id that is not stored, never created or purged, it answers read = false.
C20_ReadStatusOfUnknownId ==
    [][(Handled("readStatus") /\ req'.header \in {HeaderA, HeaderB}) =>
            /\ resp'.status = 200
            /\ StoreUnchanged
            /\ resp'.body.read \in BOOLEAN
            /\ ~Stored(req'.arg) => ~resp'.body.read]_vars

\* the id nobody was given is asked for while a read message is stored
C20_Witness ==
    /\ req.op = "readStatus" /\ req.arg = UnknownId /\ resp.status = 200
    /\ ~resp.body.read
    /\ \E i \in 1..Len(messages) : messages[i].read


-----------------------------------------------------------------------------
(* Typing indicators. *)

\* what a Get Typing at instant t reports of a participant whose last
\* accepted Set Typing is entry
Fresh(entry, t) == entry.isTyping /\ t - entry.timestamp <= TYPING_TIMEOUT

\* what Get Typing by p would answer at instant t, given the typing table
TypingSeenBy(status, p, t) == cleanupTypingStatus(status, t)[getPartnerRole(p)].isTyping

\* C21: Get Typing by the partner of p answers true exactly when the last
\* accepted Set Typing of p set true and is at most TYPING_TIMEOUT ms old:
\* true up to 3000 ms, false after, false at once after a Set Typing false,
\* with no timer and no clearing request in between.
C21_TypingExpiresByAge ==
    [][\A p \in Participants :
          (Handled("getTyping") /\ req'.header = HeaderFor(Other(p))) =>
              /\ resp'.status = 200
              /\ resp'.body.isTyping = Fresh(typed[p], now')]_vars

\* B reads A's typing more than TYPING_TIMEOUT after A set it to true, and is
\* told false although nothing has cleared it
C21_Witness ==
    /\ req.op = "getTyping" /\ req.header = HeaderB /\ resp.status = 200
    /\ typed["A"].isTyping
    /\ now - typed["A"].timestamp > TYPING_TIMEOUT
    /\ ~resp.body.isTyping

\* C22: Get Typing by p reports the partner's typing state, and a Set Typing
\* by p does not change what a Get Typing by p answers at any instant.
C22_OwnTypingNotReported ==
    [][\A p \in Participants :
          /\ (Handled("getTyping") /\ req'.header = HeaderFor(p)) =>
                /\ resp'.status = 200
                /\ resp'.body.isTyping = Fresh(typed[Other(p)], now')
          /\ (Handled("setTyping") /\ req'.header = HeaderFor(p)) =>
                \A t \in TypingTimes :
                    t >= now' => TypingSeenBy(typingStatus', p, t)
                                    = TypingSeenBy(typingStatus, p, t)]_vars

\* A is typing by its own last Set Typing, B is not, and A's Get Typing
\* answers false
C22_Witness ==
    /\ req.op = "getTyping" /\ req.header = HeaderA /\ resp.status = 200
    /\ Fresh(typed["A"], now)
    /\ ~typed["B"].isTyping
    /\ ~resp.body.isTyping

\* the fields of a message as List and Poll return it
ViewFields == {"id", "text", "sender", "timestamp", "read"}

\* C23: an accepted Set Typing by p sets p's typing entry to the given flag
\* and the current time and leaves the partner's entry, the messages with
\* their flags, the read-receipt index and the id counter as they were; and
\* every element of a List or Poll result is a stored message, never a typing
\* entry.
C23_TypingApartFromMessages ==
    [][/\ \A p \in Participants :
            (Handled("setTyping") /\ req'.header = HeaderFor(p) /\ resp'.status = 200) =>
                /\ typingStatus'[p] = [isTyping |-> req'.arg.value, timestamp |-> now']
                /\ typingStatus'[Other(p)] = typingStatus[Other(p)]
                /\ DOMAIN typingStatus' = DOMAIN typingStatus
                /\ UNCHANGED <<messages, readReceipts, messageIdCounter>>
       /\ ((Handled("list") \/ Handled("poll")) /\ resp'.status = 200) =>
            \A i \in 1..Len(resp'.body) :
                /\ DOMAIN resp'.body[i] = ViewFields
                /\ \E k \in 1..Len(messages') :
                      /\ messages'[k].id = resp'.body[i].id
                      /\ messages'[k].text = resp'.body[i].text]_vars

\* B sets typing while A is typing and a message is stored
C23_Witness ==
    /\ req.op = "setTyping" /\ req.header = HeaderB /\ resp.status = 200
    /\ typingStatus["B"] = [isTyping |-> TRUE, timestamp |-> now]
    /\ typingStatus["A"].isTyping /\ typingStatus["A"].timestamp < now
    /\ Len(messages) = 1


-----------------------------------------------------------------------------
(* The app. *)

\* a handler of the app ran in this step
ClientRan(event) == client'.turn # client.turn /\ client'.event = event

\* the chat screen is on top and the app is in the foreground
ScreenVisible(c) == c.route = "Chat" /\ c.appState = "active"

MessageStoreUnchanged == UNCHANGED <<messages, messageIdCounter, readReceipts>>

\* C24 as claimed: when the message fetch of a polling tick fails, the
\* displayed message list stays as it was, and when its typing fetch fails,
\* the partner-typing flag stays as it was.
C24_FailedTickKeepsState ==
    [][/\ ClientRan("fetchMessagesFailed") => client'.messages = client.messages
       /\ ClientRan("getTypingStatusFailed") => client'.otherTyping = client.otherTyping]_vars

\* the chat screen showed a message, the fetch of a tick has just failed, and
\* the screen shows none
C24_ListEmptiedByFailedFetch ==
    /\ client.event = "fetchMessagesFailed"
    /\ client.route = "Chat" /\ ~client.poll.orphan
    /\ client.poll.had > 0
    /\ client.messages = <<>>
    /\ messages # <<>>

\* C25 as claimed: when the send of the app fails, the stored messages and
\* the displayed list are as before, and the input field holds the text the
\* user had entered.
C25_FailedSendKeepsInput ==
    [][ClientRan("sendMessageFailed") =>
            /\ MessageStoreUnchanged
            /\ client'.messages = client.messages
            /\ client'.inputText = client.send.input]_vars

\* the send has failed without reaching the server, and the input field is
\* empty
C25_InputClearedThoughSendFailed ==
    /\ client.event = "sendMessageFailed"
    /\ client.route = "Chat" /\ ~client.send.orphan
    /\ client.send.input = Hi
    /\ client.inputText = NoInput
    /\ messages = <<>> /\ client.messages = <<>>

\* C26 as claimed: whenever the app is in the background or inactive, the
\* route is Calculator, and the app that comes back to active shows the
\* calculator.
C26_HiddenAppShowsCalculator ==
    [][/\ client'.appState \in Hidden => client'.route = "Calculator"
       /\ (ClientRan("handleAppStateChange") /\ client'.appState = "active")
             => client'.route = "Calculator"]_vars

\* an unlock that awaited the pairing has opened the chat while the app was
\* in the background
C26_ChatOpenedWhileHidden ==
    /\ client.event = "unlocked"
    /\ client.appState \in Hidden
    /\ client.route = "Chat"

\* the codes of the fetched pairing data
ListedCodes == {PairingList[i].code : i \in 1..Len(PairingList)}

C28_ReceiptOnlyWhileVisible ==
    [][(client.poll.stage = "fetch" /\ client'.poll.stage = "receipt")
            => ScreenVisible(client')]_vars

\* the fetch of a tick has come back while the app is hidden, and the tick
\* has called sendReadReceipt
C28_ReceiptSentWhileHidden ==
    /\ client.event = "fetchMessages"
    /\ client.poll.stage = "receipt"
    /\ client.appState \in Hidden
    /\ client.route = "Calculator"


-----------------------------------------------------------------------------
(* A client that polls with a cursor. *)

Max(a, b) == IF a >= b THEN a ELSE b

\* pollMessages(role, since) by a client of participant p that keeps what it
\* has received and asks with the largest timestamp among it
CursorPoll(p, T) ==
    /\ Poll(HeaderFor(p), [kind |-> "digits", n |-> poller[p].cursor], T)
    /\ poller' = [poller EXCEPT
                    ![p] = [cursor |-> Max(@.cursor, LatestTimestamp(resp'.body)),
                            received |-> @.received \cup Ids(resp'.body)]]
    /\ UNCHANGED client

\* Cursor polling: the two participants send while the clock advances, and the
\* client of each polls with its cursor.
NextCursor ==
    \/ \E h \in TheTwo, text \in {Hi}, localId \in {"undefined"} :
          Send(h, text, localId, Times, MaxSends) /\ UNCHANGED clients
    \/ \E p \in Participants : CursorPoll(p, Times)
    \/ \E h \in TheTwo : List(h) /\ UNCHANGED clients

SpecCursor == Init /\ [][NextCursor]_vars

\* C29 as claimed: after a poll of the cursor client of p, that client has
\* received every message stored in the conversation, also one created in the
\* millisecond of its cursor after the poll that gave it that cursor.  (Later
\* polls ask with at least this cursor, so what this poll left out none will
\* return.)
C29_CursorPollMissesNothing ==
    [][\A p \in Participants :
          (Handled("poll") /\ req'.header = HeaderFor(p) /\ resp'.status = 200) =>
              \A i \in 1..Len(messages') : messages'[i].id \in poller'[p].received]_vars

\* B's client has polled with its cursor and received nothing, while a
\* message to B with the timestamp of that cursor is stored that B's client
\* never received
C29_SameMillisecondMessageMissed ==
    /\ req.op = "poll" /\ req.header = HeaderB /\ resp.status = 200
    /\ resp.body = <<>>
    /\ \E i \in 1..Len(messages) :
          /\ messages[i].recipient = "B"
          /\ messages[i].timestamp = poller["B"].cursor
          /\ messages[i].id \notin poller["B"].received
          /\ ~messages[i].delivered

-----------------------------------------------------------------------------
(* Appends. *)

\* Sending without purges: valid and invalid texts from both participants
\* within one millisecond and across milliseconds, with lists and polls in
\* between.
NextAppend ==
    \/ \E h \in TheTwo, text \in {Hi, TextUndefined}, localId \in {"undefined"} :
          Send(h, text, localId, Times, MaxSends) /\ UNCHANGED clients
    \/ \E h \in TheTwo : List(h) /\ UNCHANGED clients
    \/ \E h \in {HeaderB}, q \in {NoSince} : Poll(h, q, {now}) /\ UNCHANGED clients

SpecAppend == Init /\ [][NextAppend]_vars

\* C30: in whatever order the Send requests of A and B are handled, every
\* accepted Send appends exactly one message, the one of its 201 answer; with
\* no purge the number of stored messages is the number of accepted sends, and
\* a List by either participant returns the id of every 201 answer so far.
C30_NoAppendLost ==
    [][/\ (Handled("send") /\ resp'.status = 201) =>
            /\ Len(messages') = Len(messages) + 1
            /\ SubSeq(messages', 1, Len(messages)) = messages
            /\ messages'[Len(messages')].id = resp'.body.id
            /\ createdIds' = Append(createdIds, resp'.body.id)
       /\ (Handled("send") /\ resp'.status # 201) => UNCHANGED <<messages, createdIds>>
       /\ Len(messages') = Len(createdIds')
       /\ \A p \in Participants :
            (Handled("list") /\ req'.header = HeaderFor(p) /\ resp'.status = 200) =>
                /\ Elems(createdIds) \subseteq Ids(resp'.body)
                /\ Len(resp'.body) = Len(createdIds)]_vars

\* A and B have each sent in the same millisecond, and a List returns both
\* messages
C30_Witness ==
    /\ req.op = "list" /\ resp.status = 200
    /\ Len(resp.body) = 2
    /\ Len(messages) = 2
    /\ messages[1].sender # messages[2].sender
    /\ messages[1].timestamp = messages[2].timestamp
    /\ Ids(resp.body) = Elems(createdIds)

-----------------------------------------------------------------------------
(* The stored pairing. *)

\* Unlocking on the device of participant A, paired in an earlier run.
SpecRelaunch == InitPaired /\ [][NextUnlock]_vars

\* C31 as claimed: once secure storage holds a pairing, no step changes it,
\* and the chat opens only for an equals press with the code of that pairing.
C31_PairingStoredPermanently ==
    [][client.storage # NoPairing =>
         /\ client'.storage = client.storage
         /\ ClientRan("unlocked") => potentialCode(client'.pressed) = client.storage.code]_vars

\* the device paired as A holds the pairing of B and shows the chat, after
\* the code of B was entered while the load of the stored pairing was pending
C31_RepairedAsPartner ==
    /\ client.storage = PairingData(CodeB, "B")
    /\ client.pressed = CodeB
    /\ client.event = "unlocked"
    /\ client.route = "Chat"
    /\ client.loadStoredPairing

-----------------------------------------------------------------------------
(* Typing as the app reports it.  Time is read on one clock, by the server's *)
(* Date.now() and by the app's timers.                                       *)

MaxTicks == 7
\* the clock is read every quarter of the delay of the typing timeout
TickLength == TYPING_STOP_DELAY \div 4

\* the instants of the clock
Instants == {1 + TickLength * k : k \in 0..MaxTicks}

\* time passes, up to the instant a pending typing timeout is set for
Elapse(T) ==
    /\ \E t \in T :
          /\ now < t
          /\ client.typingTimeout => t <= client.typingDue
          /\ now' = t
    /\ UNCHANGED <<store, req, resp, createdIds, credited, typed, clients>>

\* The user of the device of A opens the chat and types, each change of the
\* input before the timeout of the one before it is due; the timeout fires
\* when it is due; the partner asks for the typing status.
NextKeys ==
    \/ \E display \in {CodeA} : handleEquals(display)
    \/ loadStoredPairing
    \/ loadPairing
    \/ Elapse(Instants)
    \/ \E text \in {Hi} :
          (client.typingTimeout => now < client.typingDue) /\ handleInputChange(text)
    \/ now >= client.typingDue /\ TypingTimeout
    \/ \E h \in {HeaderB} : GetTyping(h, {now}) /\ UNCHANGED clients

SpecKeys == InitPaired /\ [][NextKeys]_vars

\* C32 as claimed: while A is typing, one change of the input after the other
\* less than 2000 ms apart and the last one less than 2000 ms ago, and the
\* server has handled the typing event of the first of them, every Get Typing
\* by B returns true.
C32_TypingShownWhileTyping ==
    [][(/\ Handled("getTyping") /\ req'.header = HeaderB /\ resp'.status = 200
        /\ client.isTyping /\ client.pairing.role = "A"
        /\ now < client.typingDue
        /\ typed["A"] = [isTyping |-> TRUE, timestamp |-> client.typingSince])
       => resp'.body.isTyping]_vars

\* A has been typing for more than TYPING_TIMEOUT, the last change less than
\* 2000 ms ago, and B is told that A is not typing
C32_TypingHiddenWhileTyping ==
    /\ req.op = "getTyping" /\ req.header = HeaderB /\ resp.status = 200
    /\ ~resp.body.isTyping
    /\ client.isTyping /\ client.inputText = Hi
    /\ now < client.typingDue
    /\ typed["A"] = [isTyping |-> TRUE, timestamp |-> client.typingSince]
    /\ now - client.typingSince > TYPING_TIMEOUT

-----------------------------------------------------------------------------
(* Staleness evaluated on read. *)

\* Set Typing, Get Typing and Poll by both participants, at instants up to
\* TYPING_TIMEOUT and more apart.
NextStale ==
    \/ \E h \in TheTwo, f \in {Bool(TRUE), Bool(FALSE)} :
          SetTyping(h, f, TypingTimes) /\ UNCHANGED clients
    \/ \E h \in TheTwo : GetTyping(h, TypingTimes) /\ UNCHANGED clients
    \/ \E h \in TheTwo, q \in {NoSince} : Poll(h, q, TypingTimes) /\ UNCHANGED clients

SpecStale == Init /\ [][NextStale]_vars

\* C33: whatever Get Typing and Poll calls have rewritten the stored flags,
\* Get Typing by p returns what the last accepted Set Typing of the partner
\* set, and its instant, determine: isTyping and now - timestamp <= 3000; and
\* the stored table answers so at every later instant as well.
C33_StalenessOnReadIsPure ==
    [][\A p \in Participants :
          /\ (Handled("getTyping") /\ req'.header = HeaderFor(p)) =>
                resp'.body.isTyping =
                    (typed'[Other(p)].isTyping
                        /\ now' - typed'[Other(p)].timestamp <= TYPING_TIMEOUT)
          /\ typingStatus'[p].timestamp = typed'[p].timestamp
          /\ \A t \in TypingTimes :
                t >= now' =>
                    TypingSeenBy(typingStatus', p, t) = Fresh(typed'[Other(p)], t)]_vars

\* a read has rewritten the stored flag of A, stale by then, and B, who is
\* typing, is reported as typing to A
C33_Witness ==
    /\ req.op = "getTyping" /\ req.header = HeaderA /\ resp.status = 200
    /\ typed["A"].isTyping /\ ~typingStatus["A"].isTyping
    /\ now - typed["A"].timestamp > TYPING_TIMEOUT
    /\ Fresh(typed["B"], now)
    /\ resp.body.isTyping

-----------------------------------------------------------------------------
(* The read-receipt index and the stored messages. *)

\* C34: in every state the ids with an entry in the read-receipt index are
\* exactly the ids of the stored messages, and the read flag of every stored
\* message equals its entry.
C34_IndexKeysAreTheStoredIds ==
    /\ DOMAIN readReceipts = {messages[i].id : i \in 1..Len(messages)}
    /\ \A i \in 1..Len(messages) : messages[i].read = readReceipts[messages[i].id]

\* a read receipt naming a stored message and an id of no message has been
\* handled: one of two stored messages is read, and the index has two entries
C34_Witness ==
    /\ req.op = "read" /\ resp.status = 200
    /\ UnknownId \in req.arg.ids
    /\ Len(messages) = 2
    /\ messages[1].read /\ ~messages[2].read
    /\ Cardinality(DOMAIN readReceipts) = 2

-----------------------------------------------------------------------------
(* The flags of a stored message. *)

\* C35: a stored message that is delivered, or read, is so after every step
\* that leaves it stored, and only a Purge removes a message from the store.
C35_FlagsNeverUndone ==
    [][\A i \in 1..Len(messages) :
          /\ \A j \in 1..Len(messages') :
                messages'[j].id = messages[i].id =>
                    /\ messages[i].delivered => messages'[j].delivered
                    /\ messages[i].read => messages'[j].read
          /\ (\A j \in 1..Len(messages') : messages'[j].id # messages[i].id)
                => (Handled("purge") /\ resp'.status = 200)]_vars

\* B polls with the cursor of an up-to-date client and gets nothing, while
\* the message B received and read earlier is still stored, delivered and
\* read, next to one B has sent that is neither
C35_Witness ==
    /\ req.op = "poll" /\ req.header = HeaderB /\ resp.status = 200
    /\ req.arg = SinceNow
    /\ resp.body = <<>>
    /\ Len(messages) = 2
    /\ messages[1].recipient = "B" /\ messages[1].delivered /\ messages[1].read
    /\ messages[2].sender = "B" /\ ~messages[2].delivered /\ ~messages[2].read

-----------------------------------------------------------------------------
(* Purge, for both participants. *)

\* C36 as claimed: a Purge by participant p leaves the message collection
\* and the read-receipt index empty, so that List and Poll by the partner
\* return nothing; it leaves the typing entries and the id counter as they
\* are; and the collection stays empty until a Send is handled.
C36_PurgeWipesForBoth ==
    [][/\ \A p \in Participants :
            (Handled("purge") /\ req'.header = HeaderFor(p) /\ resp'.status = 200) =>
                /\ messages' = <<>>
                /\ DOMAIN readReceipts' = {}
                /\ ListResult(messages', readReceipts', Other(p)) = <<>>
                /\ PollResult(messages', readReceipts', Other(p), 0) = <<>>
                /\ UNCHANGED <<typingStatus, messageIdCounter>>
       /\ (messages = <<>> /\ ~Handled("send")) => messages' = <<>>]_vars

\* B has purged, and a message addressed to A is still stored, with its
\* index entry
C36_MessageLeftAfterPurge ==
    /\ req.op = "purge" /\ req.header = HeaderB /\ resp.status = 200
    /\ Len(messages) = 1
    /\ messages[1].recipient = "A" /\ messages[1].sender \notin Participants
    /\ messages[1].id \in DOMAIN readReceipts
    /\ ListResult(messages, readReceipts, "A") # <<>>

-----------------------------------------------------------------------------
(* The message list of the chat screen. *)

\* The user of the device of A opens the chat, types and sends, while the
\* polling ticks fetch the history; the answer to a send takes its time.
NextList ==
    \/ \E display \in {CodeA} : handleEquals(display)
    \/ loadStoredPairing
    \/ loadPairing
    \/ PollInterval
    \/ MessagesFetched
    \/ TypingFetched
    \/ \E text \in {Hi} : handleInputChange(text)
    \/ handleSend
    \/ MessageHandled(MaxSends)
    \/ MessageAnswered

SpecList == InitPaired /\ [][NextList]_vars

\* C37 as claimed: no two entries of the displayed message list have the
\* same id.
C37_NoMessageShownTwice ==
    \A i, j \in 1..Len(client.messages) :
        client.messages[i].id = client.messages[j].id => i = j

\* the one message A has sent is shown twice: the list a polling tick fetched
\* held it already when handleSend appended the answer to the send
C37_SentMessageShownTwice ==
    /\ client.event = "sendMessage"
    /\ Len(messages) = 1
    /\ Len(client.messages) = 2
    /\ client.messages[1].id = messages[1].id
    /\ client.messages[2].id = messages[1].id

-----------------------------------------------------------------------------
(* The polling interval. *)

\* The chat is opened, by the stored code or by a first unlock, and left by
\* the back key or when the app is hidden, again and again, while the
\* polling ticks run.
NextTimer ==
    \/ \E display \in {CodeA} : handleEquals(display)
    \/ \E data \in {PairingResponse} : PairingFetched(data)
    \/ PairingSaved
    \/ loadStoredPairing
    \/ \E nextAppState \in AppStates : AppStateChange(nextAppState)
    \/ handleBackPress
    \/ loadPairing
    \/ PollInterval
    \/ MessagesFetched
    \/ MessagesFetchFailed
    \/ TypingFetched
    \/ TypingFetchFailed

SpecTimer == InitPaired /\ [][NextTimer]_vars

\* C38: at most one interval of startPolling runs, and it is the one
\* pollIntervalRef holds; none runs while the chat screen is not mounted or
\* isScreenVisible is false; and an interval fires only on a mounted, visible
\* chat screen.
C38_OnePollingTimer ==
    [][/\ client'.pollTimers <= 1
       /\ client'.pollInterval <=> client'.pollTimers = 1
       /\ (client'.route # "Chat" \/ ~client'.isScreenVisible) => client'.pollTimers = 0
       /\ ClientRan("poll") => (client.route = "Chat" /\ client.isScreenVisible)]_vars

\* the chat has been left while a tick awaited its fetch, and opened again:
\* one interval runs, and the tick of the screen before goes on without it
C38_Witness ==
    /\ client.route = "Chat" /\ client.isScreenVisible
    /\ client.pollTimers = 1 /\ client.pollInterval
    /\ client.poll.stage = "fetch" /\ client.poll.orphan

-----------------------------------------------------------------------------
(* The localId of a Send. *)

\* Sends by both participants with every localId, absent, empty and a token,
\* repeated, within one millisecond and across milliseconds.
NextLocalId ==
    \/ \E h \in TheTwo, text \in {Hi, TextUndefined}, localId \in LocalIds :
          Send(h, text, localId, Times, MaxSends) /\ UNCHANGED clients
    \/ \E h \in TheTwo : List(h) /\ UNCHANGED clients

SpecLocalId == Init /\ [][NextLocalId]_vars

\* C39 as claimed: a Send is accepted or refused by its text alone; an
\* accepted Send answers with the localId it was given, null when it was
\* given none, and stores one more message under an id no stored message
\* has, whatever localId the stored messages carry.
C39_LocalIdPassedThrough ==
    [][Handled("send") =>
         /\ resp'.status = 201 <=> ~(TextMissing(req'.arg) \/ TextTooLong(req'.arg))
         /\ resp'.status = 201 =>
              /\ resp'.body.localId =
                    (IF req'.localId = "undefined" THEN "null" ELSE req'.localId)
              /\ Len(messages') = Len(messages) + 1
              /\ SubSeq(messages', 1, Len(messages)) = messages
              /\ \A i \in 1..Len(messages) :
                    messages[i].id # messages'[Len(messages')].id]_vars

\* a Send with the empty string as localId was accepted and answered with
\* localId null
C39_EmptyLocalIdBecomesNull ==
    /\ req.op = "send" /\ resp.status = 201
    /\ req.localId = ""
    /\ resp.body.localId = "null"
    /\ messages[Len(messages)].localId = "null"

====
